---- MODULE Spec2Model ----
(***************************************************************************)
(* NPbot: query answering over scraped Nippon India Mutual Fund data.      *)
(*                                                                         *)
(* Text is a sequence of atoms (strings): words, punctuation ("." and the  *)
(* line break "\n") and the dot-separated pieces of URLs.  Python's        *)
(* substring test `m in text.lower()` is modelled by Lower (case folding)  *)
(* and Subs (the markers that occur inside one atom); a marker of several  *)
(* words is a run of consecutive atoms.                                    *)
(***************************************************************************)
EXTENDS Integers, Sequences, FiniteSets, TLC

VARIABLES schemes, metadata, collection, qa, api,
          factsheets, chunks, net, urlcall, job, json_dump, _metadata

vars == <<schemes, metadata, collection, qa, api,
          factsheets, chunks, net, urlcall, job, json_dump, _metadata>>

\* the variables the query path never touches
refresh_vars == <<factsheets, chunks, net, urlcall, job, json_dump, _metadata>>

-----------------------------------------------------------------------------
(* Generic sequence helpers *)

Range(s) == {s[i] : i \in 1..Len(s)}

\* all orderings of a finite set
RECURSIVE Perms(_)
Perms(S) ==
    IF S = {} THEN {<<>>}
    ELSE UNION {{<<x>> \o p : p \in Perms(S \ {x})} : x \in S}

-----------------------------------------------------------------------------
(* URLs *)

UrlMf        == "https://mf.nipponindiaim.com/nav"
UrlWww       == "https://www.nipponindiaim.com/funds"
UrlSample    == "https://mf.nipponindiaim.com/sample-fund"
UrlEvil      == "https://evil.org/nav"
UrlFtp       == "ftp://mf.nipponindiaim.com/nav"
UrlBase      == "https://mf.nipponindiaim.com"
UrlApex      == "https://nipponindiaim.com/nav"
UrlUpper     == "https://MF.NipponIndiaIM.com/nav"
UrlPort      == "https://mf.nipponindiaim.com:443/nav"
UrlUser      == "https://user@mf.nipponindiaim.com/nav"
UrlUserApex  == "https://user@nipponindiaim.com/nav"
UrlUserEvil  == "https://nipponindiaim.com@evil.org/nav"
UrlGlued     == "https://evilnipponindiaim.com/nav"
UrlPrefix    == "https://nipponindiaim.com.evil.org/nav"
UrlSebi      == "https://www.sebi.gov.in/nav"
UrlAmfi      == "https://amfiindia.com/nav"
UrlPdf       == "https://mf.nipponindiaim.com/factsheet.pdf"
UrlEvilPdf   == "https://evil.org/factsheet.pdf"
UrlEvilRoot  == "https://evil.org/x"
UrlBracket   == "http://["
RefEmpty     == ""
RefPdf       == "factsheet.pdf"
RefRoot      == "/factsheet.pdf"
RefNet       == "//evil.org/x"
RefBracket   == "//["
RefHttpFile  == "http-notice.html"
RefMail      == "mailto:care@nipponindiaim.com"
RefNoScheme  == "mf.nipponindiaim.com/nav"
UrlMfNested  == "https://mf.nipponindiaim.com/mf.nipponindiaim.com/nav"
UrlEvilNested == "https://evil.org/mf.nipponindiaim.com/nav"
UrlBaseSlash == "https://mf.nipponindiaim.com/"

\* URLs a pydantic HttpUrl field can hold (http/https with a host)
HttpUrls == {UrlMf, UrlWww, UrlSample, UrlEvil}
\* URLs a plain string field (field_sources) can hold
AnyUrls  == HttpUrls \cup {UrlFtp}

\* every URL string and reference of the model
AllUrls ==
    AnyUrls \cup
    {UrlBase, UrlApex, UrlUpper, UrlPort, UrlUser, UrlUserApex, UrlUserEvil,
     UrlGlued, UrlPrefix, UrlSebi, UrlAmfi, UrlPdf, UrlEvilPdf, UrlEvilRoot,
     UrlBracket, RefEmpty, RefPdf, RefRoot, RefNet, RefBracket, RefHttpFile,
     RefMail, RefNoScheme, UrlMfNested, UrlEvilNested, UrlBaseSlash}

\* config.ALLOWED_DOMAINS, each as its dot-separated labels
ALLOWED_DOMAINS ==
    << <<"mf", "nipponindiaim", "com">>,
       <<"nipponindiaim", "com">>,
       <<"amfiindia", "com">>,
       <<"sebi", "gov", "in">> >>

\* urlparse(url) raises ValueError (unbalanced bracket in the authority)
UrlParseRaises(url) == url \in {UrlBracket, RefBracket}

\* urlparse(url).netloc.lower(), as its dot-separated pieces; the authority
\* keeps user-info and port, so these are part of the first and last piece
Netloc(url) ==
    CASE url = UrlMf -> <<"mf", "nipponindiaim", "com">>
      [] url = UrlWww -> <<"www", "nipponindiaim", "com">>
      [] url = UrlSample -> <<"mf", "nipponindiaim", "com">>
      [] url = UrlEvil -> <<"evil", "org">>
      [] url = UrlFtp -> <<"mf", "nipponindiaim", "com">>
      [] url = UrlBase -> <<"mf", "nipponindiaim", "com">>
      [] url = UrlApex -> <<"nipponindiaim", "com">>
      [] url = UrlUpper -> <<"mf", "nipponindiaim", "com">>
      [] url = UrlPort -> <<"mf", "nipponindiaim", "com:443">>
      [] url = UrlUser -> <<"user@mf", "nipponindiaim", "com">>
      [] url = UrlUserApex -> <<"user@nipponindiaim", "com">>
      [] url = UrlUserEvil -> <<"nipponindiaim", "com@evil", "org">>
      [] url = UrlGlued -> <<"evilnipponindiaim", "com">>
      [] url = UrlPrefix -> <<"nipponindiaim", "com", "evil", "org">>
      [] url = UrlSebi -> <<"www", "sebi", "gov", "in">>
      [] url = UrlAmfi -> <<"amfiindia", "com">>
      [] url = UrlPdf -> <<"mf", "nipponindiaim", "com">>
      [] url = UrlEvilPdf -> <<"evil", "org">>
      [] url = UrlEvilRoot -> <<"evil", "org">>
      [] url = RefNet -> <<"evil", "org">>
      [] url = UrlMfNested -> <<"mf", "nipponindiaim", "com">>
      [] url = UrlEvilNested -> <<"evil", "org">>
      [] url = UrlBaseSlash -> <<"mf", "nipponindiaim", "com">>
      [] OTHER -> <<>>

\* urlparse(url).hostname, as its dot-separated labels: the authority
\* without user-info and port, in lower case
Hostname(url) ==
    CASE url = UrlMf -> <<"mf", "nipponindiaim", "com">>
      [] url = UrlWww -> <<"www", "nipponindiaim", "com">>
      [] url = UrlSample -> <<"mf", "nipponindiaim", "com">>
      [] url = UrlEvil -> <<"evil", "org">>
      [] url = UrlFtp -> <<"mf", "nipponindiaim", "com">>
      [] url = UrlBase -> <<"mf", "nipponindiaim", "com">>
      [] url = UrlApex -> <<"nipponindiaim", "com">>
      [] url = UrlUpper -> <<"mf", "nipponindiaim", "com">>
      [] url = UrlPort -> <<"mf", "nipponindiaim", "com">>
      [] url = UrlUser -> <<"mf", "nipponindiaim", "com">>
      [] url = UrlUserApex -> <<"nipponindiaim", "com">>
      [] url = UrlUserEvil -> <<"evil", "org">>
      [] url = UrlGlued -> <<"evilnipponindiaim", "com">>
      [] url = UrlPrefix -> <<"nipponindiaim", "com", "evil", "org">>
      [] url = UrlSebi -> <<"www", "sebi", "gov", "in">>
      [] url = UrlAmfi -> <<"amfiindia", "com">>
      [] url = UrlPdf -> <<"mf", "nipponindiaim", "com">>
      [] url = UrlEvilPdf -> <<"evil", "org">>
      [] url = UrlEvilRoot -> <<"evil", "org">>
      [] url = RefNet -> <<"evil", "org">>
      [] url = UrlMfNested -> <<"mf", "nipponindiaim", "com">>
      [] url = UrlEvilNested -> <<"evil", "org">>
      [] url = UrlBaseSlash -> <<"mf", "nipponindiaim", "com">>
      [] OTHER -> <<>>

\* url.startswith('http')
StartsWithHttp(url) ==
    url \in
    {UrlMf, UrlWww, UrlSample, UrlEvil, UrlBase, UrlApex, UrlUpper, UrlPort, UrlUser, UrlUserApex,
     UrlUserEvil, UrlGlued, UrlPrefix, UrlSebi, UrlAmfi, UrlPdf,
     UrlEvilPdf, UrlEvilRoot, UrlBracket, RefHttpFile, UrlMfNested, UrlEvilNested,
     UrlBaseSlash}

\* urllib.parse.urljoin(base, url) for the references that do not start
\* with "http"
urljoin(base, url) ==
    CASE base = UrlBase /\ url = UrlFtp -> UrlFtp
      [] base = UrlBase /\ url = RefPdf -> UrlPdf
      [] base = UrlBase /\ url = RefRoot -> UrlPdf
      [] base = UrlBase /\ url = RefNet -> UrlEvilRoot
      [] base = UrlBase /\ url = RefMail -> RefMail
      [] base = UrlBase /\ url = RefNoScheme -> UrlMfNested
      [] base = UrlMf /\ url = UrlFtp -> UrlFtp
      [] base = UrlMf /\ url = RefPdf -> UrlPdf
      [] base = UrlMf /\ url = RefRoot -> UrlPdf
      [] base = UrlMf /\ url = RefNet -> UrlEvilRoot
      [] base = UrlMf /\ url = RefMail -> RefMail
      [] base = UrlMf /\ url = RefNoScheme -> UrlMfNested
      [] base = UrlEvil /\ url = UrlFtp -> UrlFtp
      [] base = UrlEvil /\ url = RefPdf -> UrlEvilPdf
      [] base = UrlEvil /\ url = RefRoot -> UrlEvilPdf
      [] base = UrlEvil /\ url = RefNet -> UrlEvilRoot
      [] base = UrlEvil /\ url = RefMail -> RefMail
      [] base = UrlEvil /\ url = RefNoScheme -> UrlEvilNested
      [] OTHER -> url

\* urljoin(base, url) raises ValueError
UrlJoinRaises(base, url) ==
    <<base, url>> \in {<<UrlBase, RefBracket>>, <<UrlMf, RefBracket>>, <<UrlEvil, RefBracket>>}

\* domain.endswith('.' + allowed)
EndsWithDot(domain, allowed) ==
    /\ Len(domain) > Len(allowed)
    /\ SubSeq(domain, Len(domain) - Len(allowed) + 1, Len(domain)) = allowed

\* url_validator.validate_url: any exception of urlparse gives False
validate_url(url) ==
    IF UrlParseRaises(url) THEN FALSE
    ELSE LET domain == Netloc(url) IN
         \E k \in 1..Len(ALLOWED_DOMAINS) :
             \/ domain = ALLOWED_DOMAINS[k]
             \/ EndsWithDot(domain, ALLOWED_DOMAINS[k])

\* the value None of an Optional result
None == "None"
\* the ValueError that leaves normalize_url
ValueError == "ValueError"

\* url_validator.normalize_url(url, base_url); base_url = None is NoBase
NoBase == "NoBase"
normalize_url(url, base_url) ==
    IF url = RefEmpty THEN None
    ELSE IF base_url # NoBase /\ base_url # RefEmpty /\ ~StartsWithHttp(url)
              /\ UrlJoinRaises(base_url, url)
    THEN ValueError
    ELSE LET joined == IF base_url # NoBase /\ base_url # RefEmpty
                          /\ ~StartsWithHttp(url)
                       THEN urljoin(base_url, url) ELSE url
         IN  IF ~validate_url(joined) THEN None ELSE joined

\* the text of a URL, cut at its dots
UrlAtoms(url) ==
    CASE url = UrlMf     -> <<"https://mf", ".", "nipponindiaim", ".", "com/nav">>
      [] url = UrlWww    -> <<"https://www", ".", "nipponindiaim", ".", "com/funds">>
      [] url = UrlSample -> <<"https://mf", ".", "nipponindiaim", ".", "com/sample-fund">>
      [] url = UrlEvil   -> <<"https://evil", ".", "org/nav">>
      [] url = UrlFtp    -> <<"ftp://mf", ".", "nipponindiaim", ".", "com/nav">>
      [] OTHER           -> <<>>

-----------------------------------------------------------------------------
(* Text *)

\* str.lower() of one atom
Lower(a) ==
    CASE a = "Demo"         -> "demo"
      [] a = "Source:"      -> "source:"
      [] a = "Nippon"       -> "nippon"
      [] a = "India"        -> "india"
      [] a = "Fund"         -> "fund"
      [] a = "Fund?"        -> "fund?"
      [] a = "NAV"          -> "nav"
      [] a = "Scheme Name:" -> "scheme name:"
      [] a = "Latest NAV:"  -> "latest nav:"
      [] a = "NAV Date:"    -> "nav date:"
      [] a = "Source URL:"  -> "source url:"
      [] a = "Small"        -> "small"
      [] a = "Cap"          -> "cap"
      [] a = "Equity"       -> "equity"
      [] a = "Liquid"       -> "liquid"
      [] a = "Growth"       -> "growth"
      [] a = "Unknown"      -> "unknown"
      [] a = "Other"        -> "other"
      [] a = "Net"          -> "net"
      [] a = "Asset"        -> "asset"
      [] a = "Value"        -> "value"
      [] a = "Maintenance"  -> "maintenance"
      [] a = "ELSS"         -> "elss"
      [] a = "Debt"         -> "debt"
      [] a = "Gilt"         -> "gilt"
      [] a = "Hybrid"       -> "hybrid"
      [] a = "Balanced"     -> "balanced"
      [] a = "Multi-Asset"  -> "multi-asset"
      [] a = "Money"        -> "money"
      [] a = "Market"       -> "market"
      [] a = "Index"        -> "index"
      [] a = "Bonds"        -> "bonds"
      [] a = "N/A"          -> "n/a"
      [] a = "TBD"          -> "tbd"
      [] a = "Example"      -> "example"
      [] a = "Not"          -> "not"
      [] OTHER              -> a

LowerText(t) == [i \in 1..Len(t) |-> Lower(t[i])]

\* The markers and query keywords that occur inside an atom, besides the
\* atom itself.
Subs(a) ==
    {a} \cup
    (CASE a = "com/sample-fund" -> {"sample", "fund"}
       [] a = "com/funds"       -> {"fund"}
       [] a = "com/nav"         -> {"nav"}
       [] a = "org/nav"         -> {"nav"}
       [] a = "nipponindiaim"   -> {"nippon", "india"}
       [] a = "fund?"           -> {"fund"}
       [] a = "latest nav:"     -> {"nav"}
       [] a = "nav date:"       -> {"nav"}
       [] a = "scheme name:"    -> {"name"}
       [] a = "source url:"     -> {"source url"}
       [] a = "this"            -> {"is", "hi"}
       [] a = "bonds"           -> {"bond"}
       [] a = "https://mf"      -> {"https://"}
       [] a = "https://www"     -> {"https://"}
       [] a = "https://evil"    -> {"https://"}
       [] OTHER                 -> {})

\* the words of a marker that spans several atoms
Phrase(m) ==
    CASE m = "what is"         -> <<"what", "is">>
      [] m = "net asset value" -> <<"net", "asset", "value">>
      [] m = "test data"       -> <<"test", "data">>
      [] m = "not available"   -> <<"not", "available">>
      [] m = "source url"      -> <<"source", "url">>
      [] m = "money market"    -> <<"money", "market">>
      [] OTHER                 -> <<>>

\* `m in t` for a text t that is already case-folded (or matched as is)
ContainsRaw(t, m) ==
    \/ \E i \in 1..Len(t) : m \in Subs(t[i])
    \/ /\ Phrase(m) # <<>>
       /\ \E i \in 1..(Len(t) - Len(Phrase(m)) + 1) :
             SubSeq(t, i, i + Len(Phrase(m)) - 1) = Phrase(m)

\* `m in text.lower()`
Contains(text, m) == ContainsRaw(LowerText(text), m)

\* the length of a text in characters: atoms joined by single blanks
RECURSIVE CharLen(_)
CharLen(t) ==
    IF t = <<>> THEN 0
    ELSE Len(Head(t)) + (IF Len(t) > 1 THEN 1 + CharLen(Tail(t)) ELSE 0)

\* the number of non-whitespace characters of a text
RECURSIVE NonWsLen(_)
NonWsLen(t) == IF t = <<>> THEN 0 ELSE Len(Head(t)) + NonWsLen(Tail(t))

\* text.strip() for a document text: line breaks at both ends are dropped
RECURSIVE StripText(_)
StripText(t) ==
    IF t = <<>> THEN <<>>
    ELSE IF Head(t) = "\n" THEN StripText(Tail(t))
    ELSE IF t[Len(t)] = "\n" THEN StripText(SubSeq(t, 1, Len(t) - 1))
    ELSE t

-----------------------------------------------------------------------------
(* Queries: pad blanks around words that are joined by single blanks *)

MkQuery(pad, words) == [pad |-> pad, words |-> words]

QEmpty    == MkQuery(0, <<>>)
QHi       == MkQuery(2, <<"hi">>)
QZJ       == MkQuery(0, <<"z", "j">>)
QNav      == MkQuery(1, <<"nav">>)
QSmallCap == MkQuery(0, <<"NAV", "of", "Nippon", "India", "Small", "Cap", "Fund?">>)
QGrowth   == MkQuery(0, <<"what", "is", "Nippon", "India", "growth", "fund">>)
QLiquid   == MkQuery(0, <<"nippon", "liquid", "plan">>)

Queries == {QEmpty, QHi, QZJ, QNav, QSmallCap, QGrowth, QLiquid}

\* len(query.strip())
StrippedLen(query) == CharLen(query.words)

\* variant: the length test is off by one
TooShort_Below2(query) ==
    \/ query.pad + Len(query.words) = 0
    \/ StrippedLen(query) < 2

\* `not query or len(query.strip()) < 3`
TooShort(query) ==
    \/ query.pad + Len(query.words) = 0
    \/ StrippedLen(query) < 3

-----------------------------------------------------------------------------
(* Stored scheme records (storage/models.py: SchemeData, SchemeMetadata) *)

NoScheme == [scheme_code |-> ""]

\* a file that open(filepath, 'w') emptied and json.dump did not complete:
\* json.load raises on it and get_scheme returns None
Truncated == [scheme_code |-> "", truncated |-> TRUE]

\* a file or an in-memory result that holds a scheme record
Readable(r) == r.scheme_code # ""

\* field_sources is the list of the (field, url) items of the dict
SchemeA ==
    [scheme_code |-> "100001",
     scheme_type |-> "Equity",
     scheme_name |-> <<"Nippon", "India", "Small", "Cap", "Fund">>,
     current_nav |-> <<"123", ".", "45">>,
     nav_date |-> "01-01-2025",
     source_url |-> UrlMf,
     field_sources |-> << <<"scheme_page", UrlMf>>, <<"category", UrlMf>>,
                          <<"nav", UrlMf>> >>]

SchemeA2 ==
    [scheme_code |-> "100001",
     scheme_type |-> "Equity",
     scheme_name |-> <<"Nippon", "India", "Small", "Cap", "Fund">>,
     current_nav |-> <<>>,
     nav_date |-> "",
     source_url |-> UrlSample,
     field_sources |-> << <<"aum", UrlSample>> >>]

SchemeB ==
    [scheme_code |-> "100002",
     scheme_type |-> "Equity",
     scheme_name |-> <<"Nippon", "India", "Growth", "Fund">>,
     current_nav |-> <<>>,
     nav_date |-> "",
     source_url |-> UrlEvil,
     field_sources |-> <<>>]

SchemeC ==
    [scheme_code |-> "100003",
     scheme_type |-> "Liquid",
     scheme_name |-> <<"Nippon", "India", "Liquid", "Fund">>,
     current_nav |-> <<"45">>,
     nav_date |-> "01-01-2025",
     source_url |-> UrlWww,
     field_sources |-> << <<"nav", UrlEvil>>, <<"scheme_page", UrlFtp>>,
                          <<"category", UrlWww>> >>]

SchemeInputs == {SchemeA, SchemeA2, SchemeB, SchemeC}

Codes == {s.scheme_code : s \in SchemeInputs}

\* `field in scheme.field_sources`
HasField(fs, field) == \E i \in 1..Len(fs) : fs[i][1] = field

\* scheme.field_sources[field]
FieldSource(fs, field) ==
    fs[CHOOSE i \in 1..Len(fs) : fs[i][1] = field][2]

\* DataLoader.load_all_schemes: the stored records (in directory order)
load_all_schemes(store) == {store[c] : c \in {d \in DOMAIN store : Readable(store[d])}}

-----------------------------------------------------------------------------
(* QueryAnswerer._extract_scheme_name *)

NoName == <<>>

\* the atoms at which `\s+Fund` matches (case-insensitively, as a prefix)
StartsWithFund(a) == Lower(a) \in {"fund", "fund?", "funds"}

\* atoms made of letters only, and atoms made of letters followed by "?"
AlphaAtoms == {"nav", "of", "nippon", "india", "small", "cap", "fund", "growth",
               "liquid", "plan", "what", "is", "the", "hi", "z", "j"}
IsAlpha(a) == Lower(a) \in AlphaAtoms
AlphaBeforeQ(a) == Lower(a) \in {"fund?"}
BeforeQ(a) == IF a = "Fund?" THEN "Fund" ELSE "fund"

\* The lazy group ([A-Za-z\s]+?) starting at word k, up to the first of
\* `\s+Fund`, `?` and the end of the query; <<>> when the group cannot match.
RECURSIVE NameGroup(_, _, _)
NameGroup(words, k, acc) ==
    IF k > Len(words) THEN <<>>
    ELSE IF AlphaBeforeQ(words[k]) THEN acc \o <<BeforeQ(words[k])>>
    ELSE IF ~IsAlpha(words[k]) THEN <<>>
    ELSE IF k = Len(words) THEN acc \o <<words[k]>>
    ELSE IF StartsWithFund(words[k + 1]) THEN acc \o <<words[k]>>
    ELSE NameGroup(words, k + 1, acc \o <<words[k]>>)

\* re.search(r'Nippon\s+India\s+([A-Za-z\s]+?)(?:\s+Fund|\?|$)', query, re.I)
PatternStarts(words) ==
    {i \in 1..(Len(words) - 2) :
        /\ Lower(words[i]) = "nippon"
        /\ Lower(words[i + 1]) = "india"
        /\ NameGroup(words, i + 2, <<>>) # <<>>}

\* the word windows of the second heuristic that contain 'nippon'
WindowEnds(words) ==
    {i \in 2..Len(words) :
        /\ Lower(words[i]) \in {"fund", "scheme", "plan"}
        /\ Contains(SubSeq(words, IF i - 3 > 1 THEN i - 3 ELSE 1, i), "nippon")}

Min(S) == CHOOSE x \in S : \A y \in S : x <= y

_extract_scheme_name(words) ==
    IF PatternStarts(words) # {}
    THEN <<"Nippon", "India">>
            \o NameGroup(words, Min(PatternStarts(words)) + 2, <<>>) \o <<"Fund">>
    ELSE IF WindowEnds(words) # {}
    THEN LET i == Min(WindowEnds(words))
         IN  SubSeq(words, IF i - 3 > 1 THEN i - 3 ELSE 1, i)
    ELSE NoName

-----------------------------------------------------------------------------
(* DataLoader.get_scheme_by_name *)

\* `a in b` for two names, at word boundaries
IsSubName(a, b) ==
    \E i \in 1..(Len(b) - Len(a) + 1) : SubSeq(b, i, i + Len(a) - 1) = a

ExactMatches(all, name) ==
    {s \in all : LowerText(s.scheme_name) = LowerText(name)}

PartialMatches(all, name) ==
    {s \in all : IsSubName(LowerText(name), LowerText(s.scheme_name))}

WordMatches(all, name) ==
    {s \in all :
        LET query_words  == Range(LowerText(name))
            scheme_words == Range(LowerText(s.scheme_name))
        IN  \/ query_words \subseteq scheme_words
            \/ Cardinality(query_words \cap scheme_words) >= 2}

\* The records get_scheme_by_name can return: the first match of the first
\* pass that has one, for some directory order of the stored files.
get_scheme_by_name(store, name) ==
    LET all == load_all_schemes(store) IN
    IF ExactMatches(all, name) # {} THEN ExactMatches(all, name)
    ELSE IF PartialMatches(all, name) # {} THEN PartialMatches(all, name)
    ELSE IF WordMatches(all, name) # {} THEN WordMatches(all, name)
    ELSE {NoScheme}

-----------------------------------------------------------------------------
(* The retrieval index (backend/rag_system.py) *)

\* the collection does not exist before its first use
NoCollection == [exists |-> FALSE, docs |-> {}]

\* str() of a float given in hundredths, cut at the dot; nothing for None
\* and for 0.0, which `if scheme.current_nav` skips
FloatStr(n) ==
    CASE n = 990   -> <<"9", ".", "9">>
      [] n = 1000  -> <<"10", ".", "0">>
      [] n = 9900  -> <<"99", ".", "0">>
      [] n = 10000 -> <<"100", ".", "0">>
      [] n = 10050 -> <<"100", ".", "5">>
      [] n = 10200 -> <<"102", ".", "0">>
      [] OTHER     -> <<>>

\* DataLoader.format_scheme_for_embedding; "Rs" stands for the rupee sign.
\* A record the scraper built holds its NAV as a number, a record given as
\* an example holds the text of the number.
format_scheme_for_embedding(s) ==
    LET current_nav == IF "nav_data" \in DOMAIN s THEN FloatStr(s.current_nav)
                       ELSE s.current_nav
        nav_date == IF s.nav_date = None THEN "" ELSE s.nav_date
    IN
    <<"Scheme Name:">> \o s.scheme_name
      \o <<"\n", "Scheme Code:", s.scheme_code, "\n", "Scheme Type:", s.scheme_type>>
      \o (IF current_nav # <<>>
          THEN <<"\n", "Latest NAV:", "Rs">> \o current_nav
                 \o (IF nav_date # "" THEN <<"\n", "NAV Date:", nav_date>> ELSE <<>>)
          ELSE <<>>)
      \o <<"\n", "Source URL:">> \o UrlAtoms(s.source_url)

\* RAGSystem._populate_embeddings: one document per stored scheme
_populate_embeddings(store) ==
    [exists |-> TRUE,
     docs |-> {[document |-> format_scheme_for_embedding(s),
                source_url |-> s.source_url,
                scheme_code |-> s.scheme_code] : s \in load_all_schemes(store)}]

\* variant: every RAGSystem() populates the collection again
_initialize_collection_Repopulate(coll, store) == _populate_embeddings(store)

\* RAGSystem._initialize_collection: an existing collection is kept as it is
_initialize_collection(coll, store) ==
    IF coll.exists THEN coll ELSE _populate_embeddings(store)

MAX_SEARCH_RESULTS == 5

NoDistance == -1
\* distances in tenths
Distances == {NoDistance, 2, 3, 7, 8}

\* RAGSystem.search: the ranked results; the ranking and the distances are
\* the index's choice, a failure of the index gives the empty list
search(coll, failed, ranking, dist) ==
    IF coll.docs = {} \/ failed THEN <<>>
    ELSE [i \in 1..(IF Len(ranking) < MAX_SEARCH_RESULTS
                    THEN Len(ranking) ELSE MAX_SEARCH_RESULTS) |->
            [document |-> ranking[i].document,
             source_url |-> ranking[i].source_url,
             scheme_code |-> ranking[i].scheme_code,
             distance |-> IF dist = NoDistance THEN NoDistance ELSE dist + i - 1]]

\* the oracle's possible replies; OracleFails is a failed call
OracleFails == <<"raise">>
TPlain == <<"the", "nav", "is", "123", ".", "45">>
TCited == <<"the", "nav", "is", "123", "Source:", "official", "site">>
TDemo  == <<"this", "is", "Demo", "data">>
TNa    == <<"nav", "is", "not", "available">>
OracleReplies == {OracleFails, TPlain, TCited, TDemo, TNa}

SourceLine(source_url) == <<"\n", "\n", "Source:">> \o UrlAtoms(source_url)

\* RAGSystem.generate_answer, for a reply of the oracle
generate_answer(reply, source_url) ==
    IF ~Contains(reply, "source:") /\ ~Contains(reply, "source url")
    THEN reply \o SourceLine(source_url)
    ELSE reply

-----------------------------------------------------------------------------
(* QueryAnswerer helpers (backend/query_answerer.py) *)

DigitAtoms == {"123", "45", "100001", "100002", "100003"}
DateAtoms  == {"01-01-2025"}

\* re.search(r'Latest NAV: Rs?([\d,]+\.?\d*)', top_doc, re.I): group 1
NavMatch(doc) ==
    LET starts == {i \in 1..Len(doc) :
                     /\ Lower(doc[i]) = "latest nav:"
                     /\ LET j == IF i < Len(doc) /\ doc[i + 1] = "Rs" THEN i + 2 ELSE i + 1
                        IN  j <= Len(doc) /\ doc[j] \in DigitAtoms}
    IN  IF starts = {} THEN <<>>
        ELSE LET i == Min(starts)
                 j == IF doc[i + 1] = "Rs" THEN i + 2 ELSE i + 1
                 dot == j < Len(doc) /\ doc[j + 1] = "."
                 frac == dot /\ j + 1 < Len(doc) /\ doc[j + 2] \in DigitAtoms
             IN  <<doc[j]>> \o (IF dot THEN <<".">> ELSE <<>>)
                            \o (IF frac THEN <<doc[j + 2]>> ELSE <<>>)

\* re.search(r'NAV Date: ([\d/-]+)', top_doc, re.I): group 1
DateMatch(doc) ==
    LET starts == {i \in 1..(Len(doc) - 1) :
                     Lower(doc[i]) = "nav date:" /\ doc[i + 1] \in DateAtoms}
    IN  IF starts = {} THEN <<>> ELSE <<doc[Min(starts) + 1]>>

\* the atoms of t from position i up to the next line break
RECURSIVE RestOfLine(_, _)
RestOfLine(t, i) ==
    IF i > Len(t) \/ t[i] = "\n" THEN <<>> ELSE <<t[i]>> \o RestOfLine(t, i + 1)

\* re.search(r'Scheme Name: ([^\n]+)', top_doc): group 1 (case-sensitive)
NameMatch(doc) ==
    LET starts == {i \in 1..Len(doc) :
                     doc[i] = "Scheme Name:" /\ RestOfLine(doc, i + 1) # <<>>}
    IN  IF starts = {} THEN <<>> ELSE RestOfLine(doc, Min(starts) + 1)

\* the atoms of t from position i up to the next "."
RECURSIVE UpToDot(_, _)
UpToDot(t, i) ==
    IF i > Len(t) \/ t[i] = "." THEN <<>> ELSE <<t[i]>> \o UpToDot(t, i + 1)

\* top_doc.split('.')[:2]
FirstTwoSentences(doc) ==
    LET s1 == UpToDot(doc, 1) IN
    IF Len(s1) = Len(doc) THEN <<s1>>
    ELSE <<s1, UpToDot(doc, Len(s1) + 2)>>

\* any(keyword in sentence.lower() for keyword in query.lower().split())
Relevant(sentence, words) ==
    \E k \in 1..Len(words) : Contains(sentence, Lower(words[k]))

\* variant: the fallback answer carries no source line
_construct_fallback_answer_NoSource(words, search_results, source_url) ==
    LET top_doc == search_results[1].document
        hits == {k \in 1..Len(FirstTwoSentences(top_doc)) :
                    Relevant(FirstTwoSentences(top_doc)[k], words)}
    IN  IF hits # {} THEN StripText(FirstTwoSentences(top_doc)[Min(hits)]) \o <<".">>
        ELSE <<"Based on the available data from the official website:">>

_construct_fallback_answer(words, search_results, source_url) ==
    LET top_doc == search_results[1].document
        nav_match == NavMatch(top_doc)
        date_match == DateMatch(top_doc)
        nav_part ==
            IF (Contains(words, "nav") \/ Contains(words, "net asset value"))
               /\ nav_match # <<>>
            THEN <<"The latest NAV is", "Rs">> \o nav_match \o <<"as of">>
                   \o (IF date_match # <<>> THEN date_match
                       ELSE <<"latest available date">>) \o <<".">>
            ELSE <<>>
        name_part ==
            IF (Contains(words, "name") \/ Contains(words, "what is"))
               /\ NameMatch(top_doc) # <<>>
            THEN <<"The scheme name is">> \o StripText(NameMatch(top_doc)) \o <<".">>
            ELSE <<>>
        sentences == FirstTwoSentences(top_doc)
        hits == {k \in 1..Len(sentences) : Relevant(sentences[k], words)}
        generic ==
            IF hits # {} THEN StripText(sentences[Min(hits)]) \o <<".">> ELSE <<>>
        answer_parts ==
            IF nav_part \o name_part # <<>> THEN nav_part \o name_part
            ELSE IF generic # <<>> THEN generic
            ELSE <<"Based on the available data from the official website:">>
    IN  answer_parts \o SourceLine(source_url)

fake_indicators ==
    <<"demo", "example", "sample", "test data", "placeholder", "xxx", "000.00",
      "not available", "n/a", "tbd">>

\* variant: "not available" and "n/a" flag the answer on their own
_contains_fake_data_NoContext(answer) ==
    \E k \in 1..Len(fake_indicators) : Contains(answer, fake_indicators[k])

_contains_fake_data(answer) ==
    \E k \in 1..Len(fake_indicators) :
        /\ Contains(answer, fake_indicators[k])
        /\ IF fake_indicators[k] \in {"not available", "n/a"}
           THEN Contains(answer, "demo") \/ Contains(answer, "example")
           ELSE TRUE

\* re.search(r'https?://[^\s]+', answer)
_has_source_url(answer) ==
    ContainsRaw(answer, "https://") \/ ContainsRaw(answer, "http://")

\* variant: the high threshold includes 0.3
_determine_confidence_Le(search_results, answer) ==
    IF search_results = <<>> THEN "low"
    ELSE LET distance == search_results[1].distance IN
         IF /\ distance # NoDistance /\ distance <= 3
            /\ _has_source_url(answer) /\ ~_contains_fake_data(answer)
         THEN "high"
         ELSE IF Len(search_results) >= 2 THEN "medium"
         ELSE IF distance # NoDistance /\ distance > 7 THEN "low"
         ELSE "medium"

_determine_confidence(search_results, answer) ==
    IF search_results = <<>> THEN "low"
    ELSE LET distance == search_results[1].distance IN
         IF /\ distance # NoDistance /\ distance < 3
            /\ _has_source_url(answer) /\ ~_contains_fake_data(answer)
         THEN "high"
         ELSE IF Len(search_results) >= 2 THEN "medium"
         ELSE IF distance # NoDistance /\ distance > 7 THEN "low"
         ELSE "medium"

-----------------------------------------------------------------------------
(* QueryAnswerer.answer_query *)

MsgTooShort  == <<"Please provide a valid query about Nippon India Mutual Fund schemes.">>
MsgNoInfo    == <<"I don't have information about that in my database. Please ensure the data has been scraped from the official Nippon India Mutual Fund website.">>
MsgBadSource == <<"I cannot provide an answer as the source URL is invalid. This may indicate data integrity issues.">>
MsgFake      == <<"I cannot provide an answer as the data may not be from official sources. Please verify the data has been scraped from the official Nippon India Mutual Fund website.">>
MsgError     == <<"Error processing query: OPENROUTER_API_KEY environment variable is required">>

Max(S) == CHOOSE x \in S : \A y \in S : x >= y

\* variant: the scan does not stop at the first valid result
SelectSource_LastValid(search_results) ==
    LET top == search_results[1].source_url
        valid == {i \in 1..Len(search_results) :
                    /\ search_results[i].source_url # ""
                    /\ validate_url(search_results[i].source_url)}
    IN  IF top = "" \/ ~validate_url(top)
        THEN IF valid # {} THEN search_results[Max(valid)].source_url ELSE top
        ELSE top

\* lines 51-62: the top result's source_url, or the first valid one in rank order
SelectSource(search_results) ==
    LET top == search_results[1].source_url
        valid == {i \in 1..Len(search_results) :
                    /\ search_results[i].source_url # ""
                    /\ validate_url(search_results[i].source_url)}
    IN  IF top = "" \/ ~validate_url(top)
        THEN IF valid # {} THEN search_results[Min(valid)].source_url ELSE top
        ELSE top

\* variant: the fields are tried in the order category, scheme_page, nav
SchemeSource_CategoryFirst(source_url, scheme) ==
    IF scheme.field_sources # <<>>
    THEN LET order == <<"category", "scheme_page", "nav">>
             ok == {k \in 1..Len(order) :
                      /\ HasField(scheme.field_sources, order[k])
                      /\ validate_url(FieldSource(scheme.field_sources, order[k]))}
         IN  IF ok # {} THEN FieldSource(scheme.field_sources, order[Min(ok)])
             ELSE source_url
    ELSE scheme.source_url

\* lines 79-91: the source URL after a scheme record has been resolved
SchemeSource(source_url, scheme) ==
    IF scheme.field_sources # <<>>
    THEN LET order == <<"nav", "scheme_page", "category">>
             ok == {k \in 1..Len(order) :
                      /\ HasField(scheme.field_sources, order[k])
                      /\ validate_url(FieldSource(scheme.field_sources, order[k]))}
         IN  IF ok # {} THEN FieldSource(scheme.field_sources, order[Min(ok)])
             ELSE source_url
    ELSE scheme.source_url

\* The outcome of one call: the returned QueryAnswer (answer, source_url,
\* scheme_code, confidence) together with what the call did on its way:
\* whether search ran and what it returned, whether the oracle was called,
\* the source URL after lines 51-62 (selected_url) and the one handed to the
\* generation (generation_url), the code of the record the query's scheme
\* name resolved to, and the text before the guard (generated).
Outcome(query, path, answer, source_url, scheme_code, confidence, call) ==
    [query |-> query, path |-> path,
     answer |-> answer, source_url |-> source_url,
     scheme_code |-> scheme_code, confidence |-> confidence,
     retrieval |-> call.retrieval, search_results |-> call.search_results,
     searched |-> call.searched, oracle |-> call.oracle,
     selected_url |-> call.selected_url, generation_url |-> call.generation_url,
     resolved |-> call.resolved, generated |-> call.generated]

NoCall ==
    [retrieval |-> "none", search_results |-> <<>>, searched |-> FALSE,
     oracle |-> "none", selected_url |-> "", generation_url |-> "",
     resolved |-> "", generated |-> <<>>]

Searched(retrieval, search_results) ==
    [NoCall EXCEPT !.retrieval = retrieval, !.search_results = search_results,
                   !.searched = TRUE]

\* lines 30-36
TooShortAnswer(query) ==
    Outcome(query, "too_short", MsgTooShort, "", "", "low", NoCall)

\* variant: the no-information answer is returned with confidence medium
NoInfoAnswer_Medium(query, call) ==
    Outcome(query, "no_results", MsgNoInfo, "", "", "medium", call)

\* lines 43-49
NoInfoAnswer(query, call) ==
    Outcome(query, "no_results", MsgNoInfo, "", "", "low", call)

\* variant: the data-integrity answer is returned with confidence medium
BadSourceAnswer_Medium(query, call) ==
    Outcome(query, "bad_source", MsgBadSource, "", "", "medium", call)

\* lines 64-70
BadSourceAnswer(query, call) ==
    Outcome(query, "bad_source", MsgBadSource, "", "", "low", call)

\* variant: the rejected answer is returned with confidence medium
FakeAnswer_Medium(query, scheme_code, call) ==
    Outcome(query, "fake", MsgFake, "", scheme_code, "medium", call)

\* lines 106-112
FakeAnswer(query, scheme_code, call) ==
    Outcome(query, "fake", MsgFake, "", scheme_code, "low", call)

\* lines 114-126
FinalAnswer(query, generated, source_url, scheme_code, call) ==
    LET answer == IF ~_has_source_url(generated)
                  THEN generated \o SourceLine(source_url) ELSE generated
    IN  Outcome(query, "answered", answer, source_url, scheme_code,
                _determine_confidence(call.search_results, answer), call)

\* lines 93-126: generation or fallback, hallucination guard, final answer
Generate(query, source_url, scheme_code, reply, call) ==
    LET generated ==
            IF reply = OracleFails
            THEN _construct_fallback_answer(query.words, call.search_results, source_url)
            ELSE generate_answer(reply, source_url)
        done == [call EXCEPT !.oracle = IF reply = OracleFails THEN "failed" ELSE "ok",
                             !.generation_url = source_url,
                             !.generated = generated]
    IN  IF _contains_fake_data(generated)
        THEN FakeAnswer(query, scheme_code, done)
        ELSE FinalAnswer(query, generated, source_url, scheme_code, done)

\* QueryAnswerer.answer_query: the possible outcomes, over the oracle's
\* replies and the records the scheme name can resolve to
answer_query(query, store, retrieval, search_results, replies) ==
    IF TooShort(query) THEN {TooShortAnswer(query)}
    ELSE IF search_results = <<>>
    THEN {NoInfoAnswer(query, Searched(retrieval, search_results))}
    ELSE LET selected_url == SelectSource(search_results) IN
         IF selected_url = "" \/ ~validate_url(selected_url)
         THEN {BadSourceAnswer(query, Searched(retrieval, search_results))}
         ELSE LET scheme_name == _extract_scheme_name(query.words)
                  found == IF scheme_name = NoName THEN {NoScheme}
                           ELSE get_scheme_by_name(store, scheme_name)
              IN  {Generate(query,
                            IF scheme = NoScheme THEN selected_url
                            ELSE SchemeSource(selected_url, scheme),
                            IF scheme = NoScheme THEN search_results[1].scheme_code
                            ELSE scheme.scheme_code,
                            reply,
                            [Searched(retrieval, search_results)
                               EXCEPT !.selected_url = selected_url,
                                      !.resolved = scheme.scheme_code]) :
                     scheme \in found, reply \in replies}

-----------------------------------------------------------------------------
(* Idle values of the scraper, validator and store observations *)

\* no file of that name in the directory
NoFile == [kind |-> "absent"]

\* the last network call: which function, on which URL, how the HTTP request
\* of each successive attempt would end, how many attempts were made and
\* what the caller got
NetIdle ==
    [op |-> "none", url |-> "", transports |-> <<>>, attempts |-> 0,
     result |-> None]

\* the last call of a url_validator function
UrlIdle == [fn |-> "none", url |-> "", base_url |-> "", result |-> None]

\* the chunk files a store can hold: chunk_id is the md5 hash of
\* "{scheme_code}_{chunk_type}_{chunk_index}", modelled by the triple
MaxChunks == 3
ChunkIds == Codes \X {"scheme", "factsheet"} \X (0..(MaxChunks - 1))

\* no refresh job, scrape or validation has run
JobIdle == [op |-> "none"]

\* what json.dump does with the dict model_dump() gave, one outcome for each
\* build: the installed pydantic gives the url fields as strings and the
\* document is written, or it gives them as Url objects and json.dump raises
\* TypeError after open(filepath, 'w') emptied the file
JsonDump == {"ok", "TypeError"}

\* StorageMetadata(): the metadata of an empty data directory
StorageMetadata ==
    [total_schemes |-> 0, total_factsheets |-> 0, total_chunks |-> 0,
     last_full_refresh |-> None, last_nav_update |-> None, schemes |-> <<>>]

-----------------------------------------------------------------------------
(* State *)

QaIdle == Outcome(QEmpty, "idle", <<>>, "", "", "", NoCall)

\* the HTTP response of /ask, with what main.rag saw of the index
Response(query, status, answer, detail, retrieval, search_results) ==
    [query |-> query, status |-> status, answer |-> answer, detail |-> detail,
     retrieval |-> retrieval, search_results |-> search_results]

ApiIdle == Response(QEmpty, 0, <<>>, "", "none", <<>>)

Idle == qa = QaIdle /\ api = ApiIdle

\* the DataStore objects on the data directory
Instances == {"refresh job", "writer"}

\* DataStore.__init__: self._metadata = None
NotLoaded == [loaded |-> FALSE, md |-> StorageMetadata]

Init ==
    /\ schemes = [c \in Codes |-> NoScheme]
    /\ metadata = StorageMetadata
    /\ collection = NoCollection
    /\ qa = QaIdle
    /\ api = ApiIdle
    /\ factsheets = [c \in Codes |-> NoFile]
    /\ chunks = [i \in ChunkIds |-> NoFile]
    /\ net = NetIdle
    /\ urlcall = UrlIdle
    /\ job = JobIdle
    /\ json_dump \in JsonDump
    /\ _metadata = [i \in Instances |-> NotLoaded]

\* the rankings the index can return for a collection
Rankings(coll) == Perms(coll.docs)

-----------------------------------------------------------------------------
(* Operations *)

\* DataStore.store_scheme, the scheme file afterwards
StoredScheme(scheme_data, dump) ==
    IF dump = "ok" THEN scheme_data ELSE Truncated

\* DataStore.store_scheme, the metadata afterwards: reached only when the
\* document was written
StoredMetadata(md, scheme_data, dump) ==
    LET code == scheme_data.scheme_code
        entry == [scheme_code |-> code,
                  scheme_name |-> scheme_data.scheme_name,
                  source_url |-> scheme_data.source_url]
        existing == {i \in 1..Len(md.schemes) : md.schemes[i].scheme_code = code}
    IN  IF dump # "ok" THEN md
        ELSE IF existing = {}
        THEN [md EXCEPT !.total_schemes = @ + 1,
                        !.schemes = Append(@, entry)]
        ELSE [md EXCEPT !.schemes[Min(existing)] = entry]

\* DataStore.store_scheme: the scheme document and its metadata entry
store_scheme(scheme_data) ==
    /\ Idle
    /\ schemes' = [schemes EXCEPT ![scheme_data.scheme_code] =
                                     StoredScheme(scheme_data, json_dump)]
    /\ metadata' = StoredMetadata(metadata, scheme_data, json_dump)
    /\ UNCHANGED <<collection, qa, api, refresh_vars>>

refresh_embeddings ==
    /\ Idle
    /\ collection' = _populate_embeddings(schemes)
    /\ UNCHANGED <<schemes, metadata, qa, api, refresh_vars>>

\* query_backend.answer_query, lines 27-33
ErrorAnswer(query) == Outcome(query, "error", MsgError, "", "", "low", NoCall)

\* what the index did with the query
Retrieval(coll, failed) ==
    IF coll.docs = {} THEN "empty" ELSE IF failed THEN "error" ELSE "ok"

\* query_backend.answer_query: a QueryAnswerer is constructed (which creates
\* and populates the collection when there is none) and answers the query;
\* any exception becomes the low-confidence error record.
backend_answer_query ==
    /\ Idle
    /\ \E query \in Queries, key_set \in BOOLEAN :
         IF ~key_set
         THEN /\ qa' = ErrorAnswer(query)
              /\ UNCHANGED collection
         ELSE /\ collection' = _initialize_collection(collection, schemes)
              /\ \E failed \in BOOLEAN, ranking \in Rankings(collection'),
                    dist \in Distances :
                   qa' \in answer_query(query, schemes,
                                        Retrieval(collection', failed),
                                        search(collection', failed, ranking, dist),
                                        OracleReplies)
    /\ UNCHANGED <<schemes, metadata, api, refresh_vars>>

\* api_server.ask_query with main.rag and main.call_llm
ask_query ==
    /\ Idle
    /\ \E query \in Queries, key_set \in BOOLEAN :
         IF TooShort(query)
         THEN /\ api' = Response(query, 400, <<>>,
                                 "Query must be at least 3 characters long",
                                 "none", <<>>)
              /\ UNCHANGED collection
         ELSE IF ~key_set
         THEN \* rag() swallows the ValueError of RAGSystem(); call_llm raises it
              /\ api' = Response(query, 500, <<>>, "Configuration error",
                              "error", <<>>)
              /\ UNCHANGED collection
         ELSE /\ collection' = _initialize_collection(collection, schemes)
              /\ \E failed \in BOOLEAN, ranking \in Rankings(collection'),
                    dist \in Distances, reply \in OracleReplies :
                   LET search_results == search(collection', failed, ranking, dist)
                       retrieval == Retrieval(collection', failed)
                   IN  api' = IF reply = OracleFails
                              THEN Response(query, 500, <<>>, "Error processing query",
                                            retrieval, search_results)
                              ELSE Response(query, 200, reply, "", retrieval,
                                            search_results)
    /\ UNCHANGED <<schemes, metadata, qa, refresh_vars>>

\* the caller has taken the answer
Deliver ==
    /\ ~Idle
    /\ qa' = QaIdle
    /\ api' = ApiIdle
    /\ UNCHANGED <<schemes, metadata, collection, refresh_vars>>

Next ==
    \/ \E scheme_data \in SchemeInputs : store_scheme(scheme_data)
    \/ refresh_embeddings
    \/ backend_answer_query
    \/ ask_query
    \/ Deliver

Spec == Init /\ [][Next]_vars

-----------------------------------------------------------------------------
(* Properties of the query path *)

\* a call of QueryAnswerer.answer_query has returned
Answered == qa.path \notin {"idle", "error"}

\* a call of query_backend.answer_query has returned
Returned == qa.path # "idle"

ValidResults(search_results) ==
    {i \in 1..Len(search_results) : validate_url(search_results[i].source_url)}

\* C1: every returned QueryAnswer with a non-empty source_url has a
\* source_url that passes validate_url, also when a scheme record was
\* resolved from the query text.
C1_SourceDomain ==
    (Answered /\ qa.source_url # "") => validate_url(qa.source_url)

\* C2: no returned answer text contains "demo" or "sample", also after the
\* source line has been appended.
C2_NoFakeText ==
    Answered => (~Contains(qa.answer, "demo") /\ ~Contains(qa.answer, "sample"))

\* C3: every answer the API ask operation returns has passed the
\* hallucination guard and rests on a retrieval result with a valid source.
C3_ApiAnswerChecked ==
    api.status = 200 =>
        /\ ~_contains_fake_data(api.answer)
        /\ ValidResults(api.search_results) # {}

\* the QueryAnswer record is well formed: a text, the four fields, a level
WellFormed ==
    /\ qa.answer # <<>>
    /\ qa.confidence \in {"low", "medium", "high"}
    /\ qa.source_url \in AnyUrls \cup {""}
    /\ qa.scheme_code \in Codes \cup {""}

\* C4 as stated: the caller always receives a well-formed record, and every
\* failure branch, the failure of the oracle call included, has confidence low.
C4_EveryFailureLow ==
    Returned =>
        /\ WellFormed
        /\ (qa.path \in {"error", "too_short", "no_results", "bad_source", "fake"}
              \/ qa.oracle = "failed") => qa.confidence = "low"

\* C4 amended: the caller always receives a well-formed record; the branches
\* that return without an answer (construction error, short query, empty or
\* failed retrieval, no valid source, hallucination guard) have confidence
\* low, while after a failed oracle call the fallback answer is returned with
\* the confidence the retrieval results give it.
C4_FailureBranchesLow ==
    Returned =>
        /\ WellFormed
        /\ (\/ qa.answer = MsgError
            \/ TooShort(qa.query)
            \/ qa.retrieval \in {"empty", "error"}
            \/ (qa.searched /\ ValidResults(qa.search_results) = {})
            \/ _contains_fake_data(qa.generated)) => qa.confidence = "low"
        /\ (qa.oracle = "failed" /\ ~_contains_fake_data(qa.generated)) =>
              (qa.path = "answered"
               /\ (Len(qa.search_results) >= 2 => qa.confidence # "low"))

\* a failed retrieval or a tripped guard has been answered with a refusal
C4_Witness ==
    /\ qa.path = "fake" /\ qa.oracle = "failed" /\ qa.confidence = "low"
    /\ qa.retrieval = "ok"

\* C5 as stated: a query with fewer than 3 non-whitespace characters gets the
\* guidance answer, and neither the search nor the oracle is invoked.
C5_FewNonWhitespace ==
    (Answered /\ NonWsLen(qa.query.words) < 3) =>
        /\ qa.answer = MsgTooShort /\ qa.confidence = "low" /\ qa.source_url = ""
        /\ ~qa.searched /\ qa.oracle = "none"

\* C5 amended: a query that is empty or shorter than 3 characters once its
\* leading and trailing whitespace is stripped gets the guidance answer with
\* confidence low and empty source_url, without search or oracle call.
C5_ShortAfterStrip ==
    (Answered /\ (qa.query.pad + Len(qa.query.words) = 0 \/ CharLen(qa.query.words) < 3)) =>
        /\ qa.answer = MsgTooShort /\ qa.confidence = "low" /\ qa.source_url = ""
        /\ ~qa.searched /\ qa.oracle = "none"

C5_Witness ==
    /\ Answered /\ qa.query = QHi /\ qa.answer = MsgTooShort
    /\ collection.docs # {}

\* C6: when retrieval returns nothing (empty index or retrieval error) the
\* fixed no-information answer is returned with empty source_url, empty
\* scheme_code and confidence low, and the oracle is not called.
C6_NoHits ==
    (Answered /\ qa.searched
       /\ (qa.search_results = <<>> \/ qa.retrieval \in {"empty", "error"})) =>
        /\ qa.search_results = <<>>
        /\ qa.answer = MsgNoInfo /\ qa.source_url = "" /\ qa.scheme_code = ""
        /\ qa.confidence = "low" /\ qa.oracle = "none"

C6_Witness ==
    /\ Answered /\ qa.retrieval = "error" /\ collection.docs # {}
    /\ qa.answer = MsgNoInfo

\* C7: the source URL selected from the results is that of the first result
\* in rank order whose source_url is valid (the top one when it is valid);
\* when no result has a valid source_url the data-integrity answer is
\* returned with empty source_url, and the oracle is not called.
C7_FirstValidSource ==
    (Answered /\ qa.search_results # <<>>) =>
        LET valid == ValidResults(qa.search_results) IN
        IF valid = {}
        THEN /\ qa.answer = MsgBadSource /\ qa.source_url = ""
             /\ qa.confidence = "low" /\ qa.oracle = "none"
        ELSE /\ qa.selected_url = qa.search_results[Min(valid)].source_url
             /\ qa.oracle # "none"

\* the top result is invalid and two later results are valid and differ
C7_Witness ==
    /\ Answered /\ Len(qa.search_results) = 3
    /\ ValidResults(qa.search_results) = {2, 3}
    /\ qa.search_results[2].source_url # qa.search_results[3].source_url
    /\ qa.selected_url = qa.search_results[2].source_url

\* C8: a top distance above 0.7 gives confidence low, whatever the number of
\* results.
C8_FarIsLow ==
    (Answered /\ qa.search_results # <<>> /\ qa.search_results[1].distance > 7) =>
        qa.confidence = "low"

\* a source citation: the answer contains an http(s) URL
Cited(answer) ==
    \E i \in 1..Len(answer) :
        answer[i] \in {"https://mf", "https://www", "https://evil"}

\* C9: confidence is high exactly when the top distance is available and
\* below 0.3, the final answer cites a source URL and the final answer
\* passes the hallucination guard.
C9_HighIff ==
    Returned =>
        (qa.confidence = "high" <=>
            /\ qa.search_results # <<>>
            /\ qa.search_results[1].distance # NoDistance
            /\ qa.search_results[1].distance < 3
            /\ Cited(qa.answer)
            /\ ~_contains_fake_data(qa.answer))

C9_Witness ==
    /\ qa.confidence = "high" /\ qa.search_results[1].distance = 2

\* the text ends with the source line of the URL
EndsWithSourceLine(text, url) ==
    /\ Len(text) >= Len(SourceLine(url))
    /\ SubSeq(text, Len(text) - Len(SourceLine(url)) + 1, Len(text)) = SourceLine(url)

\* every atom of the text before its source line comes from the document or
\* from the fixed templates of the fallback
FromDocument(text, url, doc) ==
    \A i \in 1..(Len(text) - Len(SourceLine(url))) :
        text[i] \in Range(doc) \cup
            {"The latest NAV is", "as of", "latest available date", ".",
             "The scheme name is",
             "Based on the available data from the official website:"}

\* C10: after a failed oracle call the request still returns: the text is
\* built from the top document, ends with the source line of the chosen
\* source URL, and goes through the hallucination guard and the confidence
\* computation like an oracle answer.
C10_FallbackOnOracleFailure ==
    (Returned /\ qa.oracle = "failed") =>
        /\ EndsWithSourceLine(qa.generated, qa.generation_url)
        /\ FromDocument(qa.generated, qa.generation_url, qa.search_results[1].document)
        /\ IF _contains_fake_data(qa.generated)
           THEN qa.answer = MsgFake /\ qa.confidence = "low" /\ qa.source_url = ""
           ELSE /\ qa.source_url = qa.generation_url
                /\ EndsWithSourceLine(qa.answer, qa.generation_url)
                /\ SubSeq(qa.answer, 1, Len(qa.generated)) = qa.generated
                /\ qa.confidence =
                      IF qa.search_results[1].distance \in {0, 1, 2} /\ Cited(qa.answer)
                      THEN "high"
                      ELSE IF Len(qa.search_results) >= 2 THEN "medium"
                      ELSE IF qa.search_results[1].distance > 7 THEN "low"
                      ELSE "medium"

\* the fallback built a NAV sentence from the top document
C10_Witness ==
    /\ qa.oracle = "failed" /\ qa.path = "answered"
    /\ Len(qa.generated) > 0 /\ qa.generated[1] = "The latest NAV is"

-----------------------------------------------------------------------------
(* Network calls: NipponScraper._fetch_page, DataValidator._fetch_validation_data
   and RAGSystem._call_openrouter *)

\* @retry(stop=stop_after_attempt(3), ...) on _fetch_page
PAGE_FETCH_ATTEMPTS == 3
\* @retry(stop=stop_after_attempt(2), ...) on _fetch_validation_data
VALIDATION_FETCH_ATTEMPTS == 2
\* _call_openrouter carries no retry decorator: it is called once
ORACLE_ATTEMPTS == 1

\* how the HTTP request of the k-th attempt ends: "ok" is a 2xx response,
\* "fail" a network error, a timeout or a non-2xx status (raise_for_status)
Transports(budget) == [1..budget -> {"ok", "fail"}]

\* tenacity.retry with stop_after_attempt(budget) and the default retry
\* condition (retry_if_exception_type): the wrapped function is called again
\* only when it raised; the first call that returns ends the loop with its
\* value, and after the last attempt the exception leaves as RetryError.
RECURSIVE tenacity_retry(_, _, _)
tenacity_retry(budget, results, k) ==
    IF results[k] # "raise" THEN [attempts |-> k, result |-> results[k]]
    ELSE IF k >= budget THEN [attempts |-> k, result |-> "raise"]
    ELSE tenacity_retry(budget, results, k + 1)

\* the body of _fetch_page: every exception is caught and None returned
fetch_page_body(url, transport) ==
    IF ~validate_url(url) THEN None
    ELSE IF ~StartsWithHttp(url) THEN None   \* requests raises InvalidSchema
    ELSE IF transport = "fail" THEN None
    ELSE "soup"

_fetch_page(url, transports) ==
    tenacity_retry(PAGE_FETCH_ATTEMPTS,
                   [k \in 1..PAGE_FETCH_ATTEMPTS |-> fetch_page_body(url, transports[k])],
                   1)

\* the body of _fetch_validation_data: every exception is caught as well
fetch_validation_body(url, transport) ==
    IF ~StartsWithHttp(url) THEN None        \* requests raises InvalidSchema
    ELSE IF transport = "fail" THEN None
    ELSE "soup"

_fetch_validation_data(url, transports) ==
    tenacity_retry(VALIDATION_FETCH_ATTEMPTS,
                   [k \in 1..VALIDATION_FETCH_ATTEMPTS |->
                        fetch_validation_body(url, transports[k])],
                   1)

\* _call_openrouter: the exception is printed and raised again
_call_openrouter(transports) ==
    IF transports[1] = "fail" THEN [attempts |-> 1, result |-> "raise"]
    ELSE [attempts |-> 1, result |-> "text"]

OpenRouterUrl == "https://openrouter.ai/api/v1/chat/completions"

\* the URLs the scraper and the validator are asked to fetch
FetchUrls ==
    {UrlMf, UrlWww, UrlSample, UrlEvil, UrlFtp, UrlApex, UrlPort, UrlSebi,
     UrlAmfi, UrlPdf, UrlEvilPdf, UrlGlued}

NetCall(op, url, transports, outcome) ==
    [op |-> op, url |-> url, transports |-> transports,
     attempts |-> outcome.attempts, result |-> outcome.result]

call_fetch_page ==
    /\ \E url \in FetchUrls, transports \in Transports(PAGE_FETCH_ATTEMPTS) :
         net' = NetCall("_fetch_page", url, transports, _fetch_page(url, transports))
    /\ UNCHANGED <<schemes, metadata, collection, qa, api, factsheets, chunks, json_dump, _metadata,
                   urlcall, job>>

call_fetch_validation_data ==
    /\ \E url \in FetchUrls, transports \in Transports(VALIDATION_FETCH_ATTEMPTS) :
         net' = NetCall("_fetch_validation_data", url, transports,
                        _fetch_validation_data(url, transports))
    /\ UNCHANGED <<schemes, metadata, collection, qa, api, factsheets, chunks, json_dump, _metadata,
                   urlcall, job>>

call_openrouter ==
    /\ \E transports \in Transports(PAGE_FETCH_ATTEMPTS) :
         net' = NetCall("_call_openrouter", OpenRouterUrl, transports,
                        _call_openrouter(transports))
    /\ UNCHANGED <<schemes, metadata, collection, qa, api, factsheets, chunks, json_dump, _metadata,
                   urlcall, job>>

NextNet ==
    \/ call_fetch_page
    \/ call_fetch_validation_data
    \/ call_openrouter

SpecNet == Init /\ [][NextNet]_vars

\* the caller of the last network call saw the failure of its first attempt
\* as no data (None) or as an exception
FailureObserved ==
    /\ net.op # "none"
    /\ net.transports[1] = "fail"
    /\ net.result \in {None, "raise"}

\* C11: a failed page fetch, validation fetch or oracle call is attempted
\* again until its attempt budget is used up (3 attempts for the page fetch,
\* 2 for the validation fetch, more than one for the oracle call); the
\* caller never observes the failure of an attempt while attempts remain.
C11_RetriedUntilBudget ==
    FailureObserved =>
        CASE net.op = "_fetch_page"            -> net.attempts = 3
          [] net.op = "_fetch_validation_data" -> net.attempts = 2
          [] OTHER                             -> net.attempts > 1

-----------------------------------------------------------------------------
(* The URL validator as its callers use it *)

\* Python's str(bool)
PyBool(b) == IF b THEN "True" ELSE "False"

\* the base_url arguments: none, config.NIPPON_BASE_URL (the scraper's
\* base_url), a scheme page URL (the base of the links on that page) and a
\* page of another site
BaseUrls == {NoBase, UrlBase, UrlMf, UrlEvil}

call_validate_url ==
    /\ \E url \in AllUrls :
         urlcall' = [fn |-> "validate_url", url |-> url, base_url |-> NoBase,
                     result |-> PyBool(validate_url(url))]
    /\ UNCHANGED <<schemes, metadata, collection, qa, api, factsheets, chunks, json_dump, _metadata,
                   net, job>>

call_normalize_url ==
    /\ \E url \in AllUrls, base_url \in BaseUrls :
         urlcall' = [fn |-> "normalize_url", url |-> url, base_url |-> base_url,
                     result |-> normalize_url(url, base_url)]
    /\ UNCHANGED <<schemes, metadata, collection, qa, api, factsheets, chunks, json_dump, _metadata,
                   net, job>>

NextUrl ==
    \/ call_validate_url
    \/ call_normalize_url

SpecUrl == Init /\ [][NextUrl]_vars

\* the host equals an allow-listed domain or is a subdomain of one
HostAllowed(host) ==
    \E k \in 1..Len(ALLOWED_DOMAINS) :
        \/ host = ALLOWED_DOMAINS[k]
        \/ EndsWithDot(host, ALLOWED_DOMAINS[k])

\* C15: validate_url(url) is true exactly when the host of the URL is an
\* allow-listed domain or a subdomain of one, also when the authority
\* carries a port or user-info and when the host only contains or ends with
\* an allowed name without a separating dot.
C15_TrueIffHostAllowed ==
    (urlcall.fn = "validate_url") =>
        (urlcall.result = "True" <=> HostAllowed(Hostname(urlcall.url)))

\* the URL normalize_url validates: the reference resolved against base_url
Resolved(url, base_url) ==
    IF base_url # NoBase /\ ~StartsWithHttp(url) /\ ~UrlJoinRaises(base_url, url)
    THEN urljoin(base_url, url) ELSE url

\* C16: normalize_url never raises; it returns null for an empty URL, for a
\* relative URL without base_url and for a URL that is off-domain after
\* resolution against base_url; every non-null result passes validate_url.
C16_NullNeverRaises ==
    (urlcall.fn = "normalize_url") =>
        /\ urlcall.result # ValueError
        /\ urlcall.url = RefEmpty => urlcall.result = None
        /\ (urlcall.base_url = NoBase /\ Netloc(urlcall.url) = <<>>)
              => urlcall.result = None
        /\ ~HostAllowed(Hostname(Resolved(urlcall.url, urlcall.base_url)))
              => urlcall.result = None
        /\ urlcall.result # None => validate_url(urlcall.result)

-----------------------------------------------------------------------------
(* Scraped pages: what the extraction functions of NipponScraper find on a
   page, and the text soup.get_text() gives the validator *)

\* current_nav = None
NoNav == -1

\* a numeric token of a page as float(token.replace(',', '')), in hundredths
NumberValue(a) ==
    CASE a = "0"      -> 0
      [] a = "9.90"   -> 990
      [] a = "10.00"  -> 1000
      [] a = "99.00"  -> 9900
      [] a = "100.00" -> 10000
      [] a = "100.50" -> 10050
      [] a = "102.00" -> 10200
      [] OTHER        -> NoNav

IsNumber(a) == NumberValue(a) # NoNav

Page(code, fund_name, category, nav, facts, factsheet_hrefs, notice_hrefs) ==
    [code |-> code, fund_name |-> fund_name, category |-> category,
     nav |-> nav, facts |-> facts, factsheet_hrefs |-> factsheet_hrefs,
     notice_hrefs |-> notice_hrefs]

\* the fields the remaining _extract_* functions return: a value or None
FactNames ==
    {"aum", "expense_ratio", "benchmark", "inception_date", "fund_manager",
     "min_investment", "sip_min_investment", "risk_level", "performance"}
AllFacts == [f \in FactNames |-> "found"]
NoFacts  == [f \in FactNames |-> None]
SomeFacts == [f \in FactNames |-> IF f \in {"aum", "benchmark", "min_investment"}
                                  THEN "found" ELSE None]

PageSmallCap ==
    Page("100001", <<"Nippon", "India", "Small", "Cap", "Fund">>, <<"Equity">>,
         "10.00", AllFacts, <<RefPdf>>, <<RefRoot>>)
PageGrowth ==
    Page("", <<"Nippon", "India", "Growth", "Fund">>, <<"Equity">>,
         "100.00", SomeFacts, <<RefNet, RefRoot>>, <<RefNet>>)
PageLiquid ==
    Page("100003", <<"Nippon", "India", "Liquid", "Fund">>, <<"Liquid">>,
         "0", SomeFacts, <<UrlEvilPdf>>, <<>>)
PageBare ==
    Page("", <<>>, <<>>, "", NoFacts, <<>>, <<>>)
PageBrokenLink ==
    Page("100002", <<"Nippon", "India", "Growth", "Fund">>, <<>>,
         "100.00", NoFacts, <<RefBracket>>, <<>>)
PageFtpLink ==
    Page("100002", <<"Nippon", "India", "Growth", "Fund">>, <<"Equity">>,
         "", NoFacts, <<UrlFtp>>, <<RefMail>>)

Pages == {PageSmallCap, PageGrowth, PageLiquid, PageBare, PageBrokenLink,
          PageFtpLink}

\* str(HttpUrl(url)): pydantic lower-cases the host and gives an empty path
\* the path "/"
HttpUrlStr(url) ==
    CASE url = UrlUpper -> UrlMf
      [] url = UrlBase  -> UrlBaseSlash
      [] OTHER          -> url

\* HttpUrl(url) raises ValidationError unless the scheme is http or https
IsHttpUrl(url) == StartsWithHttp(url) /\ Netloc(url) # <<>>

\* the first link of the page that normalize_url accepts (lines 654-662);
\* ValueError when normalize_url raises on a link before one is accepted
RECURSIVE _extract_factsheet_url(_, _)
_extract_factsheet_url(hrefs, base_url) ==
    IF hrefs = <<>> THEN None
    ELSE LET full_url == normalize_url(Head(hrefs), base_url) IN
         IF full_url = ValueError THEN ValueError
         ELSE IF full_url # None THEN full_url
         ELSE _extract_factsheet_url(Tail(hrefs), base_url)

\* the notice links normalize_url accepts; <<ValueError>> when it raises
RECURSIVE _extract_notices(_, _)
_extract_notices(hrefs, base_url) ==
    IF hrefs = <<>> THEN <<>>
    ELSE LET notice_url == normalize_url(Head(hrefs), base_url)
             rest == _extract_notices(Tail(hrefs), base_url)
         IN  IF notice_url = ValueError \/ rest = <<ValueError>> THEN <<ValueError>>
             ELSE IF notice_url # None THEN <<notice_url>> \o rest
             ELSE rest

\* variant: the NAV fields get no field_sources entry
FieldSourceKeys_NoNav(factsheet_url, notices) ==
    <<"scheme_page", "category", "aum", "expense_ratio", "benchmark",
      "inception_date", "fund_manager", "investment_details", "risk_level">>
    \o (IF factsheet_url # None THEN <<"factsheet">> ELSE <<>>)
    \o <<"performance">>
    \o (IF notices # <<>> THEN <<"notices">> ELSE <<>>)

\* variant: the debt keywords are tested before the equity keywords
_determine_scheme_type_DebtFirst(category) ==
    IF category = <<>> THEN "Unknown"
    ELSE IF Contains(category, "debt") \/ Contains(category, "bond")
            \/ Contains(category, "gilt") THEN "Debt"
    ELSE IF Contains(category, "equity") \/ Contains(category, "elss") THEN "Equity"
    ELSE IF Contains(category, "hybrid") \/ Contains(category, "balanced")
            \/ Contains(category, "multi-asset") THEN "Hybrid"
    ELSE IF Contains(category, "liquid") \/ Contains(category, "money market")
    THEN "Liquid"
    ELSE "Other"

_determine_scheme_type(category) ==
    IF category = <<>> THEN "Unknown"
    ELSE IF Contains(category, "equity") \/ Contains(category, "elss") THEN "Equity"
    ELSE IF Contains(category, "debt") \/ Contains(category, "bond")
            \/ Contains(category, "gilt") THEN "Debt"
    ELSE IF Contains(category, "hybrid") \/ Contains(category, "balanced")
            \/ Contains(category, "multi-asset") THEN "Hybrid"
    ELSE IF Contains(category, "liquid") \/ Contains(category, "money market")
    THEN "Liquid"
    ELSE "Other"

\* the keys of field_sources in the order scrape_scheme_page sets them
FieldSourceKeys(factsheet_url, notices) ==
    <<"scheme_page", "category", "nav", "aum", "expense_ratio", "benchmark",
      "inception_date", "fund_manager", "investment_details", "risk_level">>
    \o (IF factsheet_url # None THEN <<"factsheet">> ELSE <<>>)
    \o <<"performance">>
    \o (IF notices # <<>> THEN <<"notices">> ELSE <<>>)

\* NipponScraper.scrape_scheme_page: the SchemeData record, NoScheme for
\* None, or the exception that leaves the function
Raised(e) == [scheme_code |-> "", raised |-> e]

scrape_scheme_page(url, code, transports, page) ==
    LET scheme_url == normalize_url(url, UrlBase) IN
    IF scheme_url = ValueError THEN Raised(ValueError)
    ELSE IF scheme_url = None THEN NoScheme
    ELSE IF _fetch_page(scheme_url, transports).result = None THEN NoScheme
    ELSE
    LET scheme_code == IF code # "" THEN code
                       ELSE IF page.code # "" THEN page.code ELSE "UNKNOWN"
        factsheet_url == _extract_factsheet_url(page.factsheet_hrefs, scheme_url)
        notices == _extract_notices(page.notice_hrefs, scheme_url)
        keys == FieldSourceKeys(factsheet_url, notices)
    IN  IF factsheet_url = ValueError \/ notices = <<ValueError>>
        THEN Raised(ValueError)
        ELSE IF ~IsHttpUrl(scheme_url)
                \/ (factsheet_url # None /\ ~IsHttpUrl(factsheet_url))
        THEN Raised("ValidationError")
        ELSE
        [scheme_code |-> scheme_code,
         scheme_name |-> IF page.fund_name # <<>> THEN page.fund_name
                         ELSE <<"Unknown", "Scheme">>,
         scheme_type |-> _determine_scheme_type(page.category),
         category |-> page.category,
         source_url |-> HttpUrlStr(scheme_url),
         factsheet_url |-> IF factsheet_url = None THEN None
                           ELSE HttpUrlStr(factsheet_url),
         last_updated |-> "scrape time",
         last_validated |-> None,
         validation_status |-> "pending",
         nav_data |-> IF IsNumber(page.nav)
                      THEN <<[date |-> "01-01-2025", nav |-> NumberValue(page.nav)]>>
                      ELSE <<>>,
         current_nav |-> NumberValue(page.nav),
         nav_date |-> IF IsNumber(page.nav) THEN "01-01-2025" ELSE None,
         facts |-> page.facts,
         notices |-> notices,
         field_sources |->
            [i \in 1..Len(keys) |->
                <<keys[i], IF keys[i] = "factsheet" THEN factsheet_url
                           ELSE scheme_url>>]]

-----------------------------------------------------------------------------
(* DataValidator *)

\* soup.get_text() of a scraped page
TextOf(page) ==
    page.fund_name \o page.category
    \o (IF page.nav # "" THEN <<"NAV", page.nav>> ELSE <<>>)

\* the texts of the live pages the validator fetches: the scraped pages as
\* they were, and pages whose NAV has moved since
LiveTexts ==
    {TextOf(pg) : pg \in {PageSmallCap, PageGrowth, PageLiquid, PageBare}}
    \cup
    {<<"Nippon", "India", "Small", "Cap", "Fund", "Equity", "NAV", "9.90">>,
     <<"Nippon", "India", "Growth", "Fund", "Equity", "NAV", "99.00">>,
     <<"Nippon", "India", "Growth", "Fund", "Equity", "NAV", "100.50">>,
     <<"Nippon", "India", "Growth", "Fund", "Equity", "NAV", "102.00">>,
     <<"Nippon", "India", "Growth", "Fund", "NAV", "102.00",
       "Net", "Asset", "Value", "100.50">>,
     <<"Nippon", "India", "Growth", "Fund", "Equity">>}

\* re.findall of one NAV pattern: the numbers that follow the label, which
\* is `width` atoms long, in text order
RECURSIVE FindAll(_, _, _)
FindAll(text, label, i) ==
    LET width == Len(label) IN
    IF i + width > Len(text) THEN <<>>
    ELSE IF /\ LowerText(SubSeq(text, i, i + width - 1)) = label
            /\ IsNumber(text[i + width])
    THEN <<NumberValue(text[i + width])>> \o FindAll(text, label, i + 1)
    ELSE FindAll(text, label, i + 1)

\* found_navs of _validate_nav: the matches of the first pattern, then those
\* of the second
FoundNavs(text) ==
    FindAll(text, <<"nav">>, 1) \o FindAll(text, <<"net", "asset", "value">>, 1)

Abs(x) == IF x < 0 THEN -x ELSE x

\* The pairs (stored, found) of the NAV values above for which the double
\* arithmetic of line 131 differs from exact arithmetic: 10.0 - 9.9 is
\* 0.09999999999999964 in doubles, so the quotient is below 0.01 although the
\* values differ by exactly 1%.
DoubleBelowExact == {<<1000, 990>>, <<990, 1000>>}

\* abs(stored_nav - found_nav) / max(stored_nav, found_nav) < 0.01
WithinTolerance(stored_nav, found_nav) ==
    \/ <<stored_nav, found_nav>> \in DoubleBelowExact
    \/ Abs(stored_nav - found_nav) * 100 < Max({stored_nav, found_nav})

Check(valid, found_on_page) == [valid |-> valid, found_on_page |-> found_on_page]
NoCheck == [valid |-> FALSE, found_on_page |-> "not performed"]

_validate_nav(stored_nav, text) ==
    LET found_navs == FoundNavs(text)
        close == {i \in 1..Len(found_navs) : WithinTolerance(stored_nav, found_navs[i])}
    IN  IF found_navs = <<>> THEN Check(FALSE, None)
        ELSE IF close # {} THEN Check(TRUE, "close")
        ELSE Check(FALSE, "mismatch")

\* stored_lower in page_text or any(word in page_text for the words longer
\* than 3 characters)
_validate_scheme_name(stored_name, text) ==
    LET page_text == LowerText(text)
        stored_lower == LowerText(stored_name)
        n == Len(stored_lower)
        name_found ==
            \/ \E i \in 1..(Len(page_text) - n + 1) :
                  SubSeq(page_text, i, i + n - 1) = stored_lower
            \/ \E k \in 1..n : /\ Len(stored_lower[k]) > 3
                               /\ ContainsRaw(page_text, stored_lower[k])
    IN  Check(name_found, PyBool(name_found))

_validate_scheme_type(stored_type, text) ==
    LET type_found == ContainsRaw(LowerText(text), Lower(stored_type))
    IN  Check(type_found, PyBool(type_found))

\* variant: one valid check is enough for valid
validate_scheme_AnyValid(scheme_data, enabled, transports, text) ==
    IF ~enabled THEN [status |-> "skipped", reason |-> "validation_disabled"]
    ELSE IF _fetch_validation_data(scheme_data.source_url, transports).result = None
    THEN [status |-> "error", validated_at |-> "validation time",
          error |-> "Could not fetch validation page"]
    ELSE
    LET name == _validate_scheme_name(scheme_data.scheme_name, text)
        nav  == IF scheme_data.current_nav \notin {NoNav, 0}
                THEN _validate_nav(scheme_data.current_nav, text)
                ELSE NoCheck
        type == _validate_scheme_type(scheme_data.scheme_type, text)
        checks == (IF nav # NoCheck THEN {nav} ELSE {}) \cup {name, type}
        status == IF \E c \in checks : c.valid THEN "valid"
                  ELSE IF \A c \in checks : c.valid THEN "partial"
                  ELSE "invalid"
    IN  [status |-> status, validated_at |-> "validation time",
         scheme_name |-> name, nav |-> nav, scheme_type |-> type]

\* DataValidator.validate_scheme; `enabled` is config.VALIDATION_ENABLED
validate_scheme(scheme_data, enabled, transports, text) ==
    IF ~enabled THEN [status |-> "skipped", reason |-> "validation_disabled"]
    ELSE IF _fetch_validation_data(scheme_data.source_url, transports).result = None
    THEN [status |-> "error", validated_at |-> "validation time",
          error |-> "Could not fetch validation page"]
    ELSE
    LET name == _validate_scheme_name(scheme_data.scheme_name, text)
        nav  == IF scheme_data.current_nav \notin {NoNav, 0}
                THEN _validate_nav(scheme_data.current_nav, text)
                ELSE NoCheck
        type == _validate_scheme_type(scheme_data.scheme_type, text)
        checks == (IF nav # NoCheck THEN {nav} ELSE {}) \cup {name, type}
        status == IF \A c \in checks : c.valid THEN "valid"
                  ELSE IF \E c \in checks : c.valid THEN "partial"
                  ELSE "invalid"
    IN  [status |-> status, validated_at |-> "validation time",
         scheme_name |-> name, nav |-> nav, scheme_type |-> type]

\* DataValidator.update_validation_status: the record with the two fields
\* set, or the KeyError of validation_result['validated_at']
update_validation_status(scheme_data, validation_result) ==
    IF "validated_at" \notin DOMAIN validation_result THEN Raised("KeyError")
    ELSE [scheme_data EXCEPT !.validation_status = validation_result.status,
                             !.last_validated = validation_result.validated_at]

-----------------------------------------------------------------------------
(* Scraping and validating one scheme, as test_scraper.test_scrape_single_scheme
   and RefreshScheduler.full_refresh do: scrape_scheme_page, validate_scheme,
   update_validation_status *)

\* the scheme URLs of the listing page and of the examples
ScrapeUrls == {UrlMf, UrlWww, UrlUpper, UrlBase, UrlEvil, UrlFtp, RefRoot, RefBracket}

\* the loop of full_refresh is at its head: nothing scraped yet, the last
\* scrape gave nothing, or the last scheme was validated and updated
AtLoopHead ==
    \/ job.op = "none"
    \/ job.op = "scrape_scheme_page" /\ ~Readable(job.scheme)
    \/ job.op = "update_validation_status"

call_scrape_scheme_page ==
    /\ AtLoopHead
    /\ \E url \in ScrapeUrls, code \in {"", "100001"},
          transports \in Transports(PAGE_FETCH_ATTEMPTS), page \in Pages :
         job' = [op |-> "scrape_scheme_page", url |-> url, page |-> page,
                 scheme |-> scrape_scheme_page(url, code, transports, page)]
    /\ UNCHANGED <<schemes, metadata, collection, qa, api, factsheets, chunks, json_dump, _metadata,
                   net, urlcall>>

call_validate_scheme ==
    /\ job.op = "scrape_scheme_page"
    /\ Readable(job.scheme)
    /\ \E enabled \in BOOLEAN, transports \in Transports(VALIDATION_FETCH_ATTEMPTS),
          text \in LiveTexts :
         job' = [op |-> "validate_scheme", scheme |-> job.scheme,
                 enabled |-> enabled,
                 fetched |-> _fetch_validation_data(job.scheme.source_url,
                                                    transports).result # None,
                 text |-> text,
                 validation |-> validate_scheme(job.scheme, enabled, transports, text)]
    /\ UNCHANGED <<schemes, metadata, collection, qa, api, factsheets, chunks, json_dump, _metadata,
                   net, urlcall>>

call_update_validation_status ==
    /\ job.op = "validate_scheme"
    /\ job' = [op |-> "update_validation_status", scheme |-> job.scheme,
               validation |-> job.validation,
               updated |-> update_validation_status(job.scheme, job.validation)]
    /\ UNCHANGED <<schemes, metadata, collection, qa, api, factsheets, chunks, json_dump, _metadata,
                   net, urlcall>>

NextScrape ==
    \/ call_scrape_scheme_page
    \/ call_validate_scheme
    \/ call_update_validation_status

SpecScrape == Init /\ [][NextScrape]_vars

\* validate_scheme has returned
Validated == job.op = "validate_scheme"

\* the checks of a validation result that were performed
Performed(v) ==
    {v.scheme_name, v.scheme_type} \cup (IF v.nav # NoCheck THEN {v.nav} ELSE {})

\* the status the performed checks give
StatusOfChecks(v) ==
    IF \A c \in Performed(v) : c.valid THEN "valid"
    ELSE IF \E c \in Performed(v) : c.valid THEN "partial"
    ELSE "invalid"

\* C12 as stated: skipped when validation is disabled, error when the live
\* page cannot be fetched, otherwise valid / partial / invalid as all / some /
\* none of the performed checks are valid, where the NAV check is performed
\* whenever a NAV is stored; pending is never returned.
C12_StatusOfStoredNav ==
    Validated =>
        /\ job.validation.status # "pending"
        /\ ~job.enabled => job.validation.status = "skipped"
        /\ (job.enabled /\ ~job.fetched) => job.validation.status = "error"
        /\ (job.enabled /\ job.fetched) =>
              /\ job.validation.status = StatusOfChecks(job.validation)
              /\ job.validation.nav # NoCheck <=> job.scheme.current_nav # NoNav

\* C12: skipped when validation is disabled, error when the live page cannot
\* be fetched, otherwise valid / partial / invalid as all / some / none of
\* the performed checks are valid, where the NAV check is performed when the
\* stored NAV is present and not zero; pending is never returned.
C12_StatusOfChecks ==
    Validated =>
        /\ job.validation.status # "pending"
        /\ ~job.enabled => job.validation.status = "skipped"
        /\ (job.enabled /\ ~job.fetched) => job.validation.status = "error"
        /\ (job.enabled /\ job.fetched) =>
              /\ job.validation.status = StatusOfChecks(job.validation)
              /\ job.validation.nav # NoCheck <=>
                    job.scheme.current_nav \notin {NoNav, 0}

\* a validation with the three checks performed that gave partial
C12_Witness ==
    /\ Validated /\ job.enabled /\ job.fetched
    /\ job.validation.status = "partial"
    /\ job.validation.nav # NoCheck
    /\ job.validation.scheme_name.valid /\ ~job.validation.nav.valid

\* C13: for every result of validate_scheme, whatever its status,
\* update_validation_status completes without error and sets
\* validation_status to the result's status and last_validated to the
\* validation time.
C13_StatusWrittenBack ==
    (job.op = "update_validation_status") =>
        /\ Readable(job.updated)
        /\ job.updated.validation_status = job.validation.status
        /\ job.updated.last_validated = "validation time"

\* C14: the NAV check is valid exactly when some NAV value found on the live
\* page differs from the stored NAV by a relative difference strictly below
\* 1%; a difference of exactly 1% or more against every live value, or no
\* live value, gives valid = false.
C14_ValidIffBelowOnePercent ==
    (Validated /\ job.enabled /\ job.fetched /\ job.validation.nav # NoCheck) =>
        LET stored == job.scheme.current_nav
            found == FoundNavs(job.text)
        IN  job.validation.nav.valid <=>
              \E i \in 1..Len(found) :
                 Abs(stored - found[i]) * 100 < Max({stored, found[i]})

\* the field_sources key that stands for each populated fact of a record
PopulatedKeys(s) ==
    {"scheme_page"}
    \cup (IF s.category # <<>> THEN {"category"} ELSE {})
    \cup (IF s.current_nav # NoNav THEN {"nav"} ELSE {})
    \cup {f \in {"aum", "expense_ratio", "benchmark", "inception_date",
                 "fund_manager", "risk_level", "performance"} :
              s.facts[f] # None}
    \cup (IF s.facts["min_investment"] # None \/ s.facts["sip_min_investment"] # None
          THEN {"investment_details"} ELSE {})
    \cup (IF s.factsheet_url # None THEN {"factsheet"} ELSE {})
    \cup (IF s.notices # <<>> THEN {"notices"} ELSE {})

\* C17: in every record scrape_scheme_page produces, every populated fact
\* field has a non-empty entry in field_sources, and every URL in
\* field_sources and metadata.source_url pass validate_url.
C17_FieldSourcesValid ==
    (job.op = "scrape_scheme_page" /\ Readable(job.scheme)) =>
        LET s == job.scheme IN
        /\ \A k \in PopulatedKeys(s) :
              /\ HasField(s.field_sources, k)
              /\ FieldSource(s.field_sources, k) \notin {"", None}
        /\ \A i \in 1..Len(s.field_sources) : validate_url(s.field_sources[i][2])
        /\ validate_url(s.source_url)

\* a record with every fact, a factsheet link and a notice
C17_Witness ==
    /\ job.op = "scrape_scheme_page" /\ Readable(job.scheme)
    /\ job.scheme.facts = AllFacts
    /\ job.scheme.factsheet_url = UrlPdf
    /\ job.scheme.notices # <<>>
    /\ job.scheme.current_nav = 1000

-----------------------------------------------------------------------------
(* The data directory: store_scheme, store_factsheet, create_text_chunks and
   store_text_chunks of DataStore *)

CHUNK_SIZE == 1000
CHUNK_OVERLAP == 200

\* the largest total the metadata counts to
MaxTotal == 4

\* variant: the window leaves out the overlap with the chunk before
Slice_SkipOverlap(start, end, length) == <<start + CHUNK_OVERLAP, Min({end, length})>>

\* content[start:end] of a text of len(content) = length: the slice bounds
Slice(start, end, length) == <<start, Min({end, length})>>

\* DataStore.create_text_chunks from the position `start` of the while loop;
\* the content is given by its length, chunk_id is the md5 of
\* f"{scheme_code}_{chunk_type}_{chunk_index}"
RECURSIVE create_text_chunks_from(_, _, _, _, _, _)
create_text_chunks_from(start, chunk_index, scheme_code, content, chunk_type, source_url) ==
    IF ~(start < content) THEN <<>>
    ELSE LET end == start + CHUNK_SIZE IN
         <<[kind |-> "chunk",
            chunk_id |-> <<scheme_code, chunk_type, chunk_index>>,
            scheme_code |-> scheme_code,
            chunk_type |-> chunk_type,
            content |-> Slice(start, end, content),
            source_url |-> source_url]>>
         \o create_text_chunks_from(end - CHUNK_OVERLAP, chunk_index + 1,
                                    scheme_code, content, chunk_type, source_url)

create_text_chunks(scheme_code, content, chunk_type, source_url) ==
    create_text_chunks_from(0, 0, scheme_code, content, chunk_type, source_url)

\* the lengths of the scheme texts and factsheet texts that are chunked
ContentLengths ==
    {n \in {0, 500, 1000, 2400, 3000} :
        Len(create_text_chunks("100001", n, "scheme", UrlBaseSlash)) <= MaxChunks}

\* DataStore.store_text_chunks, the chunk files afterwards: every chunk is
\* written to the file of its chunk_id, up to the first json.dump that raises
StoredChunks(files, new_chunks, dump) ==
    [i \in DOMAIN files |->
        IF dump = "ok"
        THEN IF \E k \in 1..Len(new_chunks) : new_chunks[k].chunk_id = i
             THEN new_chunks[CHOOSE k \in 1..Len(new_chunks) :
                                new_chunks[k].chunk_id = i]
             ELSE files[i]
        ELSE IF new_chunks # <<>> /\ new_chunks[1].chunk_id = i
             THEN [kind |-> "truncated"]
             ELSE files[i]]

\* DataStore.store_text_chunks
store_text_chunks(new_chunks) ==
    LET failed == json_dump # "ok" /\ new_chunks # <<>> IN
    /\ metadata.total_chunks + Len(new_chunks) <= MaxTotal
    /\ chunks' = StoredChunks(chunks, new_chunks, json_dump)
    /\ metadata' = IF failed THEN metadata
                   ELSE [metadata EXCEPT !.total_chunks = @ + Len(new_chunks)]
    /\ job' = [op |-> "store_text_chunks", chunks |-> new_chunks,
               result |-> PyBool(~failed)]
    /\ UNCHANGED <<schemes, collection, qa, api, factsheets, net, urlcall, json_dump, _metadata>>

\* NipponScraper.scrape_factsheet for a PDF factsheet: the FactsheetData
FactsheetOf(scheme_code, factsheet_url) ==
    [kind |-> "factsheet", scheme_code |-> scheme_code,
     source_url |-> HttpUrlStr(factsheet_url),
     content |-> [type |-> "pdf", url |-> factsheet_url]]

FactsheetInputs == {FactsheetOf("100001", UrlPdf), FactsheetOf("100002", UrlPdf)}

\* DataStore.store_factsheet
store_factsheet(factsheet_data) ==
    /\ metadata.total_factsheets < MaxTotal
    /\ factsheets' = [factsheets EXCEPT ![factsheet_data.scheme_code] =
                         IF json_dump = "ok" THEN factsheet_data
                         ELSE [kind |-> "truncated"]]
    /\ metadata' = IF json_dump = "ok"
                   THEN [metadata EXCEPT !.total_factsheets = @ + 1]
                   ELSE metadata
    /\ UNCHANGED <<schemes, collection, qa, api, chunks, net, urlcall, job, json_dump, _metadata>>

\* the (scheme_code, chunk_type) pairs that are chunked
ChunkTargets == {<<"100001", "scheme">>, <<"100001", "factsheet">>}

NextStore ==
    \/ \E scheme_data \in {SchemeA, SchemeA2} : store_scheme(scheme_data)
    \/ \E factsheet_data \in FactsheetInputs : store_factsheet(factsheet_data)
    \/ \E t \in ChunkTargets, content \in ContentLengths :
          store_text_chunks(create_text_chunks(t[1], content, t[2], UrlBaseSlash))

SpecStore == Init /\ [][NextStore]_vars

\* the chunk documents persisted for the pair of the chunks just stored
PersistedFor(new_chunks) ==
    {chunks[i] : i \in {j \in ChunkIds :
                          /\ j[1] = new_chunks[1].scheme_code
                          /\ j[2] = new_chunks[1].chunk_type
                          /\ chunks[j] # NoFile}}

\* C18: after a text is re-chunked and stored, the chunks persisted for that
\* (scheme_code, chunk_type) are exactly the newly produced chunks; no chunk
\* of an earlier version remains, also when the new version has fewer chunks.
C18_NoStaleChunks ==
    (job.op = "store_text_chunks" /\ job.chunks # <<>>) =>
        PersistedFor(job.chunks) = {job.chunks[k] : k \in 1..Len(job.chunks)}

\* C19: after any sequence of store_scheme, store_factsheet and
\* store_text_chunks the totals of the metadata equal the numbers of scheme,
\* factsheet and chunk documents that are persisted.
C19_TotalsMatchDocuments ==
    /\ metadata.total_schemes = Cardinality({c \in Codes : Readable(schemes[c])})
    /\ metadata.total_factsheets =
          Cardinality({c \in Codes : factsheets[c].kind = "factsheet"})
    /\ metadata.total_chunks =
          Cardinality({i \in ChunkIds : chunks[i].kind = "chunk"})

-----------------------------------------------------------------------------
(* RefreshScheduler.nav_refresh over the stored schemes *)

AllOk == [k \in 1..PAGE_FETCH_ATTEMPTS |-> "ok"]
AllFail == [k \in 1..PAGE_FETCH_ATTEMPTS |-> "fail"]

\* the scraped records the full refresh stores
ScrapedInputs ==
    {scrape_scheme_page(UrlMf, "100001", AllOk, PageSmallCap),
     scrape_scheme_page(UrlUpper, "100003", AllOk, PageLiquid)}

\* what the re-scrape of one scheme page meets: the transport and the page
Rescrapes ==
    {[transports |-> AllFail, page |-> PageBare],
     [transports |-> AllOk, page |-> PageBare],
     [transports |-> AllOk, page |-> PageGrowth],
     [transports |-> AllOk, page |-> PageLiquid],
     [transports |-> AllOk, page |-> PageBrokenLink]}

\* the files of the schemes directory in the order of the listing
SchemeFiles == <<"100001", "100002", "100003">>

\* DataStore.get_all_schemes: the codes of the files get_scheme can load
get_all_schemes(files) == {c \in DOMAIN files : Readable(files[c])}

\* DataStore.get_scheme of a readable file: SchemeData(**data) parses the
\* url fields again
get_scheme(file) ==
    [file EXCEPT !.source_url = HttpUrlStr(@),
                 !.factsheet_url = IF @ = None THEN None ELSE HttpUrlStr(@)]

\* variant: the refresh takes the scraped name as well
NavUpdate_Name(scheme, updated_scheme) ==
    [scheme EXCEPT !.current_nav = updated_scheme.current_nav,
                   !.nav_date = updated_scheme.nav_date,
                   !.nav_data = updated_scheme.nav_data,
                   !.scheme_name = updated_scheme.scheme_name,
                   !.last_updated = "nav refresh time"]

\* the assignments of nav_refresh to the stored scheme
NavUpdate(scheme, updated_scheme) ==
    [scheme EXCEPT !.current_nav = updated_scheme.current_nav,
                   !.nav_date = updated_scheme.nav_date,
                   !.nav_data = updated_scheme.nav_data,
                   !.last_updated = "nav refresh time"]

\* the loop of nav_refresh from the k-th stored scheme on; disk.raised when
\* scrape_scheme_page raised and the except clause of nav_refresh ended the loop
RECURSIVE nav_refresh_loop(_, _, _, _)
nav_refresh_loop(k, disk, rescrape, dump) ==
    IF k > Len(SchemeFiles) THEN disk
    ELSE
    LET code == SchemeFiles[k] IN
    IF ~Readable(disk.schemes[code])
    THEN nav_refresh_loop(k + 1, disk, rescrape, dump)
    ELSE
    LET scheme == get_scheme(disk.schemes[code])
        updated_scheme == scrape_scheme_page(scheme.source_url, scheme.scheme_code,
                                             rescrape[code].transports,
                                             rescrape[code].page)
    IN  IF "raised" \in DOMAIN updated_scheme
        THEN [disk EXCEPT !.raised = TRUE]
        ELSE IF Readable(updated_scheme)
                /\ updated_scheme.current_nav \notin {NoNav, 0}
        THEN nav_refresh_loop(
                k + 1,
                [disk EXCEPT
                    !.schemes[code] = StoredScheme(NavUpdate(scheme, updated_scheme), dump),
                    !.metadata = StoredMetadata(@, NavUpdate(scheme, updated_scheme), dump)],
                rescrape, dump)
        ELSE nav_refresh_loop(k + 1, disk, rescrape, dump)

nav_refresh ==
    /\ \E rescrape \in [get_all_schemes(schemes) -> Rescrapes] :
         LET out == nav_refresh_loop(1, [schemes |-> schemes, metadata |-> metadata,
                                         raised |-> FALSE],
                                     rescrape, json_dump)
         IN  /\ schemes' = out.schemes
             /\ metadata' = IF out.raised THEN out.metadata
                            ELSE [out.metadata EXCEPT
                                     !.last_nav_update = "nav refresh time"]
             /\ job' = [op |-> "nav_refresh", rescrape |-> rescrape,
                        raised |-> out.raised]
    /\ UNCHANGED <<collection, qa, api, factsheets, chunks, net, urlcall, json_dump, _metadata>>

NextNav ==
    \/ \E scheme_data \in ScrapedInputs : store_scheme(scheme_data)
    \/ nav_refresh

SpecNav == Init /\ [][NextNav]_vars

\* the fields of a record that are not NAV fields and not last_updated
OtherFields(s) ==
    [s EXCEPT !.current_nav = NoNav, !.nav_date = None, !.nav_data = <<>>,
              !.last_updated = None]

\* the re-scrape of the scheme failed or its page shows no NAV
NoNewNav(r) == r.transports = AllFail \/ ~IsNumber(r.page.nav)

\* C20: nav_refresh never adds or removes a stored record, changes nothing
\* but current_nav, nav_date, nav_data and last_updated of a record, and
\* leaves a record as it is when the re-scrape fails or yields no NAV.
C20_OnlyNavFields ==
    [][nav_refresh =>
        \A c \in Codes :
           /\ Readable(schemes'[c]) <=> Readable(schemes[c])
           /\ ~Readable(schemes[c]) => schemes'[c] = schemes[c]
           /\ Readable(schemes[c]) =>
                 /\ Readable(schemes'[c])
                 /\ OtherFields(schemes'[c]) = OtherFields(schemes[c])
                 /\ NoNewNav(job'.rescrape[c]) => schemes'[c] = schemes[c]]_vars

\* a NAV refresh gave one stored record a new NAV and left another, whose
\* re-scrape failed, with the NAV it had
C20_Witness ==
    /\ job.op = "nav_refresh"
    /\ Readable(schemes["100001"]) /\ Readable(schemes["100003"])
    /\ schemes["100001"].current_nav = 10000
    /\ schemes["100001"].last_updated = "nav refresh time"
    /\ job.rescrape["100003"].transports = AllFail
    /\ schemes["100003"].last_updated = "scrape time"

\* the re-scrape of the stored scheme c returned a record with a NAV
NewNavScraped(u) ==
    /\ "raised" \notin DOMAIN u
    /\ Readable(u)
    /\ u.current_nav \notin {NoNav, 0}

-----------------------------------------------------------------------------
(* NipponScraper._determine_scheme_type over the categories a page can show *)

CategoryAtoms ==
    {"Equity", "ELSS", "Debt", "Gilt", "Hybrid", "Multi-Asset", "Liquid",
     "Money", "Market", "Index", "Bonds"}

\* the bound of the length of a category, in words
MaxCategoryLen == 2

Categories == UNION {[1..n -> CategoryAtoms] : n \in 0..MaxCategoryLen}

call_determine_scheme_type ==
    /\ \E category \in Categories :
         job' = [op |-> "_determine_scheme_type", category |-> category,
                 result |-> _determine_scheme_type(category)]
    /\ UNCHANGED <<schemes, metadata, collection, qa, api, factsheets, chunks, json_dump, _metadata,
                   net, urlcall>>

NextType == call_determine_scheme_type

SpecType == Init /\ [][NextType]_vars

\* the lower-cased category contains one of the keywords
Mentions(category, keywords) == \E k \in keywords : Contains(category, k)

EquityWords == {"equity", "elss"}
DebtWords == {"debt", "bond", "gilt"}
HybridWords == {"hybrid", "balanced", "multi-asset"}
LiquidWords == {"liquid", "money market"}

\* C22: an absent or empty category gives Unknown; otherwise the class is
\* Equity, Debt, Hybrid, Liquid by case-insensitive substring of the keywords
\* of the class, the first class in this order that has a keyword in the
\* category wins, and a category with no keyword gives Other.
C22_FirstClassWins ==
    (job.op = "_determine_scheme_type") =>
        LET c == job.category
            r == job.result
        IN  /\ (r = "Unknown") <=> (c = <<>>)
            /\ (r = "Equity") <=> (c # <<>> /\ Mentions(c, EquityWords))
            /\ (r = "Debt") <=> (c # <<>> /\ ~Mentions(c, EquityWords)
                                  /\ Mentions(c, DebtWords))
            /\ (r = "Hybrid") <=> (c # <<>> /\ ~Mentions(c, EquityWords \cup DebtWords)
                                    /\ Mentions(c, HybridWords))
            /\ (r = "Liquid") <=>
                  (c # <<>> /\ ~Mentions(c, EquityWords \cup DebtWords \cup HybridWords)
                   /\ Mentions(c, LiquidWords))
            /\ (r = "Other") <=>
                  (c # <<>> /\ ~Mentions(c, EquityWords \cup DebtWords
                                            \cup HybridWords \cup LiquidWords))

\* a category with a debt keyword inside a word and an equity keyword was
\* classified as Equity
C22_Witness ==
    /\ job.op = "_determine_scheme_type"
    /\ job.category = <<"Bonds", "ELSS">>
    /\ job.result = "Equity"

-----------------------------------------------------------------------------
(* The source URL of an answer about a resolved scheme *)

\* the fields of the record whose URL may become the source URL, by priority
PreferredFields == <<"nav", "scheme_page", "category">>

\* the priorities whose field is present in field_sources with a valid URL
PresentValid(s) ==
    {k \in 1..Len(PreferredFields) :
        /\ HasField(s.field_sources, PreferredFields[k])
        /\ validate_url(FieldSource(s.field_sources, PreferredFields[k]))}

FirstPresentValid(s) == FieldSource(s.field_sources, PreferredFields[Min(PresentValid(s))])

\* the query's scheme name resolved to a stored record
ResolvedScheme == qa.resolved # ""

\* C23 as stated: when the scheme name resolves to a stored record, the
\* returned scheme_code is the record's and the returned source_url is the
\* first of field_sources[nav], [scheme_page], [category] that is present and
\* valid.
C23_OwnSourceUrl ==
    ResolvedScheme =>
        /\ qa.scheme_code = qa.resolved
        /\ PresentValid(schemes[qa.resolved]) # {}
        /\ qa.source_url = FirstPresentValid(schemes[qa.resolved])

\* C23: when the scheme name resolves to a stored record, the returned
\* scheme_code is the record's; an answer that passes the hallucination guard
\* has as source_url the first of field_sources[nav], [scheme_page],
\* [category] that is present and valid, or, when the record has
\* field_sources but none of the three is present and valid, the URL selected
\* from the search results, or, when the record has no field_sources, the
\* record's metadata.source_url as it is; an answer the guard rejects has an
\* empty source_url.
C23_PreferredSourceUrl ==
    ResolvedScheme =>
        LET s == schemes[qa.resolved] IN
        /\ qa.scheme_code = qa.resolved
        /\ qa.path \in {"answered", "fake"}
        /\ qa.path = "fake" => qa.source_url = ""
        /\ qa.path = "answered" =>
              qa.source_url =
                 IF s.field_sources = <<>> THEN s.source_url
                 ELSE IF PresentValid(s) # {} THEN FirstPresentValid(s)
                 ELSE qa.selected_url

\* an answer about a resolved record whose own nav URL replaced the URL
\* selected from the search results
C23_Witness ==
    /\ ResolvedScheme
    /\ qa.path = "answered"
    /\ PresentValid(schemes[qa.resolved]) # {}
    /\ qa.source_url = FieldSource(schemes[qa.resolved].field_sources, "nav")
    /\ qa.source_url # qa.selected_url

-----------------------------------------------------------------------------
(* QueryAnswerer._contains_fake_data over the answers an oracle can give *)

GuardAtoms ==
    {"Demo", "Example", "sample", "test", "data", "placeholder", "xxx",
     "000.00", "TBD", "N/A", "Not", "available", "NAV"}

\* the bound of the length of an answer, in words
MaxAnswerLen == 2

GuardAnswers == UNION {[1..n -> GuardAtoms] : n \in 0..MaxAnswerLen}

call_contains_fake_data ==
    /\ \E answer \in GuardAnswers :
         job' = [op |-> "_contains_fake_data", answer |-> answer,
                 result |-> PyBool(_contains_fake_data(answer))]
    /\ UNCHANGED <<schemes, metadata, collection, qa, api, factsheets, chunks, json_dump, _metadata,
                   net, urlcall>>

NextGuard == call_contains_fake_data

SpecGuard == Init /\ [][NextGuard]_vars

UnconditionalMarkers ==
    {"demo", "example", "sample", "test data", "placeholder", "xxx", "000.00", "tbd"}

ContextualMarkers == {"not available", "n/a"}

\* C27: the guard is true exactly when the lower-cased answer contains one
\* of the eight unconditional markers; "not available" and "n/a" do not
\* change the result on their own.
C27_GuardIffUnconditionalMarker ==
    (job.op = "_contains_fake_data") =>
        (job.result = "True" <=>
            \E marker \in UnconditionalMarkers : Contains(job.answer, marker))

\* an answer with a contextual marker and no unconditional one passed the guard
C27_Witness ==
    /\ job.op = "_contains_fake_data"
    /\ \E marker \in ContextualMarkers : Contains(job.answer, marker)
    /\ \A marker \in UnconditionalMarkers : ~Contains(job.answer, marker)
    /\ job.result = "False"

-----------------------------------------------------------------------------
(* Confidence and source of the results of QueryAnswerer.answer_query *)

\* the text holds a URL: one the oracle cited or the appended source line
HoldsSourceUrl(answer, source_url) ==
    \/ _has_source_url(answer)
    \/ source_url # "" /\ EndsWithSourceLine(answer, source_url)

\* C28: every result of answer_query has confidence low, medium or high; an
\* empty source_url occurs only with confidence low; a result with confidence
\* medium or high has a non-empty source_url and an answer that contains a
\* source URL.
C28_ConfidentHasSource ==
    Answered =>
        /\ qa.confidence \in {"low", "medium", "high"}
        /\ qa.source_url = "" => qa.confidence = "low"
        /\ qa.confidence \in {"medium", "high"} =>
              /\ qa.source_url # ""
              /\ HoldsSourceUrl(qa.answer, qa.source_url)

\* a result with confidence medium whose source line was appended because the
\* oracle cited no URL
C28_Witness ==
    /\ Answered
    /\ qa.confidence = "medium"
    /\ qa.source_url # ""
    /\ ~_has_source_url(qa.generated)
    /\ EndsWithSourceLine(qa.answer, qa.source_url)

-----------------------------------------------------------------------------
(* The status codes of /ask *)

\* a call of api_server.ask_query has returned
Asked == api.status # 0

\* C24: /ask answers 400 to every query shorter than 3 characters after
\* trimming and 500 to every backend failure, a failed retrieval as well as
\* a failed oracle call; a backend failure never gives a 200.
C24_BackendFailureIs500 ==
    Asked =>
        /\ TooShort(api.query) => api.status = 400
        /\ ~TooShort(api.query) /\ api.retrieval = "error" => api.status = 500
        /\ api.status = 200 => api.retrieval # "error"

-----------------------------------------------------------------------------
(* DataStore.create_text_chunks over contents of many lengths *)

\* the bound of the length of a content, in hundreds of characters
MaxHundreds == 26

\* lengths at, just above and just below the multiples of one hundred
ChunkedLengths == {h * 100 + r : h \in 0..MaxHundreds, r \in {0, 1, 99}}

call_create_text_chunks ==
    /\ \E scheme_code \in Codes, chunk_type \in {"scheme", "factsheet"},
          content \in ChunkedLengths :
         job' = [op |-> "create_text_chunks", scheme_code |-> scheme_code,
                 chunk_type |-> chunk_type, content |-> content,
                 result |-> create_text_chunks(scheme_code, content, chunk_type,
                                               UrlBaseSlash)]
    /\ UNCHANGED <<schemes, metadata, collection, qa, api, factsheets, chunks, json_dump, _metadata,
                   net, urlcall>>

NextChunk == call_create_text_chunks

SpecChunk == Init /\ [][NextChunk]_vars

\* the characters of a window
Window(w) == w[1]..(w[2] - 1)

\* C26: with CHUNK_SIZE above CHUNK_OVERLAP the chunking ends; chunk i has
\* the id made of (scheme_code, chunk_type, i) and the window
\* content[i*(S-O) : i*(S-O)+S]; the indices run from 0 without gaps; no
\* chunk is empty; the chunks cover every character of the content; an
\* empty content gives no chunk; chunking the same input again gives the
\* same ids.
C26_ChunkWindows ==
    (job.op = "create_text_chunks") =>
        LET r == job.result
            n == job.content
            stride == CHUNK_SIZE - CHUNK_OVERLAP
            again == create_text_chunks(job.scheme_code, n, job.chunk_type, UrlBaseSlash)
        IN  /\ CHUNK_SIZE > CHUNK_OVERLAP
            /\ \A k \in 1..Len(r) :
                  /\ r[k].chunk_id = <<job.scheme_code, job.chunk_type, k - 1>>
                  /\ r[k].content = <<(k - 1) * stride,
                                      Min({(k - 1) * stride + CHUNK_SIZE, n})>>
                  /\ Window(r[k].content) # {}
            /\ UNION {Window(r[k].content) : k \in 1..Len(r)} = 0..(n - 1)
            /\ (n = 0) => (r = <<>>)
            /\ Len(again) = Len(r)
            /\ \A k \in 1..Len(r) : again[k].chunk_id = r[k].chunk_id

\* a content of 1001 characters was cut into two overlapping chunks, the
\* second one shorter than CHUNK_SIZE
C26_Witness ==
    /\ job.op = "create_text_chunks"
    /\ job.content = 1001
    /\ Len(job.result) = 2
    /\ job.result[2].content = <<800, 1001>>

-----------------------------------------------------------------------------
(* Two DataStore objects on one data directory *)

\* the most factsheet stores and chunk stores a DataStore counts
MaxStores == 1

\* DataStore._load_metadata of the instance i: the cached object when there
\* is one, otherwise the metadata file (StorageMetadata() when it is absent)
_load_metadata(i) == IF _metadata[i].loaded THEN _metadata[i].md ELSE metadata

\* DataStore._save_metadata of the instance i, whose self._metadata is md:
\* the file is overwritten with the object of this instance
_save_metadata(i, md) ==
    /\ metadata' = md
    /\ _metadata' = [_metadata EXCEPT ![i] = [loaded |-> TRUE, md |-> md]]

\* DataStore.store_scheme of the instance i
store_scheme_by(i, scheme_data) ==
    /\ schemes' = [schemes EXCEPT ![scheme_data.scheme_code] =
                                     StoredScheme(scheme_data, json_dump)]
    /\ IF json_dump = "ok"
       THEN _save_metadata(i, StoredMetadata(_load_metadata(i), scheme_data, json_dump))
       ELSE UNCHANGED <<metadata, _metadata>>
    /\ UNCHANGED <<collection, qa, api, factsheets, chunks, net, urlcall, job, json_dump>>

\* DataStore.store_factsheet of the instance i
store_factsheet_by(i, factsheet_data) ==
    /\ _load_metadata(i).total_factsheets < MaxStores
    /\ factsheets' = [factsheets EXCEPT ![factsheet_data.scheme_code] =
                         IF json_dump = "ok" THEN factsheet_data
                         ELSE [kind |-> "truncated"]]
    /\ IF json_dump = "ok"
       THEN _save_metadata(i, [_load_metadata(i) EXCEPT !.total_factsheets = @ + 1])
       ELSE UNCHANGED <<metadata, _metadata>>
    /\ UNCHANGED <<schemes, collection, qa, api, chunks, net, urlcall, job, json_dump>>

\* DataStore.store_text_chunks of the instance i
store_text_chunks_by(i, new_chunks) ==
    /\ _load_metadata(i).total_chunks + Len(new_chunks) <= MaxStores
    /\ chunks' = StoredChunks(chunks, new_chunks, json_dump)
    /\ IF json_dump = "ok" \/ new_chunks = <<>>
       THEN _save_metadata(i, [_load_metadata(i) EXCEPT
                                  !.total_chunks = @ + Len(new_chunks)])
       ELSE UNCHANGED <<metadata, _metadata>>
    /\ UNCHANGED <<schemes, collection, qa, api, factsheets, net, urlcall, job, json_dump>>

\* DataStore.update_refresh_timestamp of the instance i
update_refresh_timestamp(i, nav_only) ==
    /\ _save_metadata(i, IF nav_only
                         THEN [_load_metadata(i) EXCEPT
                                  !.last_nav_update = "refresh time"]
                         ELSE [_load_metadata(i) EXCEPT
                                  !.last_full_refresh = "refresh time",
                                  !.last_nav_update = "refresh time"])
    /\ UNCHANGED <<schemes, collection, qa, api, factsheets, chunks, net, urlcall, job,
                   json_dump>>

NextShared ==
    \E i \in Instances :
       \/ \E scheme_data \in ScrapedInputs : store_scheme_by(i, scheme_data)
       \/ store_factsheet_by(i, FactsheetOf("100001", UrlPdf))
       \/ store_text_chunks_by(i, create_text_chunks("100001", 500, "scheme", UrlBaseSlash))
       \/ \E nav_only \in BOOLEAN : update_refresh_timestamp(i, nav_only)

SpecShared == Init /\ [][NextShared]_vars

\* the scheme codes the metadata document lists
ListedCodes(md) == {md.schemes[k].scheme_code : k \in 1..Len(md.schemes)}

\* C29: when two DataStore objects on one data directory interleave their
\* store_scheme, store_factsheet, store_text_chunks and
\* update_refresh_timestamp calls, the metadata document lists every scheme
\* code that has a stored scheme document and its counts include the stores
\* of both objects: no update of the metadata is lost.
C29_NoLostMetadataUpdate ==
    /\ \A c \in Codes : Readable(schemes[c]) => c \in ListedCodes(metadata)
    /\ metadata.total_schemes >= Cardinality({c \in Codes : Readable(schemes[c])})
    /\ metadata.total_factsheets
          >= Cardinality({c \in Codes : factsheets[c].kind = "factsheet"})
    /\ metadata.total_chunks
          >= Cardinality({id \in ChunkIds : chunks[id].kind = "chunk"})

-----------------------------------------------------------------------------
(* The refresh jobs and the retrieval index: RefreshScheduler.full_refresh
   and nav_refresh beside RAGSystem and main.rag *)

\* NipponScraper.get_all_schemes_list: the schemes of the listing page
ListedSchemes ==
    <<[url |-> UrlMf, scheme_code |-> "100001"],
      [url |-> UrlUpper, scheme_code |-> "100003"]>>

ListingCodes == {ListedSchemes[k].scheme_code : k \in 1..Len(ListedSchemes)}

\* NipponScraper.scrape_all_schemes: the result of scrape_scheme_page for
\* each listed scheme, in the order of the listing
scrape_all_schemes(meets) ==
    [k \in 1..Len(ListedSchemes) |->
        scrape_scheme_page(ListedSchemes[k].url, ListedSchemes[k].scheme_code,
                           meets[ListedSchemes[k].scheme_code].transports,
                           meets[ListedSchemes[k].scheme_code].page)]

\* RefreshScheduler._generate_scheme_text: len() of the text, one line for
\* each field that is set
_generate_scheme_text(scheme) ==
    60 + 20 * Cardinality({f \in FactNames : scheme.facts[f] # None})
       + (IF scheme.category # <<>> THEN 20 ELSE 0)
       + (IF scheme.current_nav \notin {NoNav, 0} THEN 40 ELSE 0)

\* len() of the raw_text f"PDF Factsheet: {factsheet_url}"
PdfFactsheetText == 60

\* NipponScraper.scrape_factsheet: every factsheet link the pages carry ends
\* in .pdf, so the record is built from the URL alone
scrape_factsheet(factsheet_url, scheme_code) ==
    IF normalize_url(factsheet_url, UrlBase) \in {None, ValueError} THEN NoFile
    ELSE FactsheetOf(scheme_code, factsheet_url)

\* store_text_chunks inside a refresh: the chunk files and the counter
ChunksStored(disk, new_chunks, dump) ==
    [disk EXCEPT !.chunks = StoredChunks(@, new_chunks, dump),
                 !.metadata = IF dump = "ok" \/ new_chunks = <<>>
                              THEN [@ EXCEPT !.total_chunks = @ + Len(new_chunks)]
                              ELSE @]

\* one pass of the first loop of full_refresh for the validated scheme:
\* store the scheme, chunk its text and store the chunks
full_refresh_scheme(disk, scheme, dump) ==
    ChunksStored([disk EXCEPT
                     !.schemes[scheme.scheme_code] = StoredScheme(scheme, dump),
                     !.metadata = StoredMetadata(@, scheme, dump)],
                 create_text_chunks(scheme.scheme_code, _generate_scheme_text(scheme),
                                    "scheme", scheme.source_url),
                 dump)

\* the first loop of full_refresh from the k-th scraped scheme on: validate,
\* update the status, then store
RECURSIVE full_refresh_schemes(_, _, _, _, _)
full_refresh_schemes(k, disk, scraped, live, dump) ==
    IF k > Len(scraped) THEN disk
    ELSE full_refresh_schemes(
             k + 1,
             full_refresh_scheme(
                 disk,
                 update_validation_status(
                     scraped[k],
                     validate_scheme(scraped[k], TRUE, live.transports, live.text)),
                 dump),
             scraped, live, dump)

\* one pass of the second loop of full_refresh: store_factsheet and the
\* chunks of the factsheet; nothing for a scheme without a factsheet
full_refresh_factsheet(disk, factsheet, dump) ==
    IF factsheet = NoFile THEN disk
    ELSE ChunksStored([disk EXCEPT
                          !.factsheets[factsheet.scheme_code] =
                              IF dump = "ok" THEN factsheet
                              ELSE [kind |-> "truncated"],
                          !.metadata = IF dump = "ok"
                                       THEN [@ EXCEPT !.total_factsheets = @ + 1]
                                       ELSE @],
                      create_text_chunks(factsheet.scheme_code, PdfFactsheetText,
                                         "factsheet", factsheet.source_url),
                      dump)

\* scrape_all_factsheets and the second loop of full_refresh from the k-th
\* scraped scheme on
RECURSIVE full_refresh_factsheets(_, _, _, _)
full_refresh_factsheets(k, disk, scraped, dump) ==
    IF k > Len(scraped) THEN disk
    ELSE full_refresh_factsheets(
             k + 1,
             full_refresh_factsheet(
                 disk,
                 IF scraped[k].factsheet_url = None THEN NoFile
                 ELSE scrape_factsheet(scraped[k].factsheet_url, scraped[k].scheme_code),
                 dump),
             scraped, dump)

\* the most chunks the counter shows when a full refresh starts
MaxRefreshedChunks == 1

\* what the scrape of one listed scheme page meets during a full refresh
FullScrapes ==
    {[transports |-> AllFail, page |-> PageBare],
     [transports |-> AllOk, page |-> PageSmallCap],
     [transports |-> AllOk, page |-> PageBrokenLink]}

\* what the validator meets: the live page of the first scheme
LivePages == {[transports |-> AllOk, text |-> TextOf(PageSmallCap)]}

\* the end of full_refresh: update_refresh_timestamp(nav_only=False) after
\* the two loops
full_refresh_end(out, count) ==
    /\ schemes' = out.schemes
    /\ chunks' = out.chunks
    /\ factsheets' = out.factsheets
    /\ metadata' = [out.metadata EXCEPT !.last_full_refresh = "refresh time",
                                        !.last_nav_update = "refresh time"]
    /\ job' = [op |-> "full_refresh", raised |-> FALSE, scraped |-> count]

\* full_refresh after scrape_all_schemes returned the records `scraped`
full_refresh_scraped(scraped, live) ==
    full_refresh_end(
        full_refresh_factsheets(
            1,
            full_refresh_schemes(1, [schemes |-> schemes, metadata |-> metadata,
                                     chunks |-> chunks, factsheets |-> factsheets],
                                 scraped, live, json_dump),
            scraped, json_dump),
        Len(scraped))

\* full_refresh from the results of the scrape_scheme_page calls: an
\* exception of one call leaves scrape_all_schemes before anything is stored
\* and the except clause of full_refresh ends the job
full_refresh_results(results, live) ==
    IF \E k \in 1..Len(results) : "raised" \in DOMAIN results[k]
    THEN /\ UNCHANGED <<schemes, metadata, chunks, factsheets>>
         /\ job' = [op |-> "full_refresh", raised |-> TRUE, scraped |-> 0]
    ELSE full_refresh_scraped(SelectSeq(results, Readable), live)

\* RefreshScheduler.full_refresh
full_refresh ==
    /\ metadata.total_chunks < MaxRefreshedChunks
    /\ \E meets \in [ListingCodes -> FullScrapes], live \in LivePages :
         full_refresh_results(scrape_all_schemes(meets), live)
    /\ UNCHANGED <<collection, qa, api, net, urlcall, json_dump, _metadata>>

\* main.rag: a RAGSystem is constructed, which creates and populates the
\* collection when there is none, and the documents of the first three
\* results are the context; without the API key the constructor raises
rag ==
    /\ \E key_set \in BOOLEAN :
         IF ~key_set
         THEN /\ job' = [op |-> "rag", retrieval |-> "error", context |-> <<>>]
              /\ UNCHANGED collection
         ELSE /\ collection' = _initialize_collection(collection, schemes)
              /\ \E failed \in BOOLEAN, ranking \in Rankings(collection') :
                   LET search_results == search(collection', failed, ranking, NoDistance)
                   IN  job' = [op |-> "rag",
                               retrieval |-> Retrieval(collection', failed),
                               context |-> [k \in 1..Min({3, Len(search_results)}) |->
                                              search_results[k].document]]
    /\ UNCHANGED <<schemes, metadata, qa, api, factsheets, chunks, net, urlcall,
                   json_dump, _metadata>>

NextIndex ==
    \/ full_refresh
    \/ nav_refresh
    \/ refresh_embeddings
    \/ rag

SpecIndex == Init /\ [][NextIndex]_vars

\* the documents of the index
Documents(coll) == {doc.document : doc \in coll.docs}

\* the documents the stored records would give now
StoreDocuments == {format_scheme_for_embedding(s) : s \in load_all_schemes(schemes)}

\* C30: the index is populated from the store only when its collection is
\* first created or when refresh_embeddings is called; a step that writes
\* to the store (full_refresh, nav_refresh) leaves the index as it is; what a query retrieves are documents of the index, that is of its
\* last population.
C30_IndexOnlyPopulated ==
    [][/\ collection' # collection =>
             /\ ~collection.exists \/ refresh_embeddings
             /\ collection' = _populate_embeddings(schemes)
       /\ (schemes' # schemes \/ metadata' # metadata \/ chunks' # chunks
              \/ factsheets' # factsheets) =>
             collection' = collection
       /\ (job' # job /\ job'.op = "rag") =>
             \A k \in 1..Len(job'.context) :
                job'.context[k] \in Documents(collection')]_vars

\* a query after a refresh retrieved a document of the last population that
\* no stored record gives any more
C30_Witness ==
    /\ job.op = "rag"
    /\ job.context # <<>>
    /\ \E k \in 1..Len(job.context) : job.context[k] \notin StoreDocuments
    /\ metadata.last_nav_update # None

-----------------------------------------------------------------------------
(* The field heuristics of NipponScraper: _extract_aum, _extract_sip_details
   and _extract_performance over a page given by what the text patterns
   match and by the rows of its table *)

\* float(group.replace(',', '')) of a matched number, shown as str(float)
Float(token) ==
    CASE token = "5,000" -> "5000.0"
      [] token = "1,000" -> "1000.0"
      [] OTHER           -> None

\* re.search(r'([\d,]+)', value.replace(',', '')) and its [\d.]+ sibling: the
\* number inside the second cell of a row, None when the cell has no digit
CellNumber(value) ==
    CASE value = "Rs 1,000" -> "1,000"
      [] OTHER              -> None

\* the first cells of the rows, lower-cased, and the tests made on them
RowKeys ==
    {"minimum investment", "sip minimum investment", "aum", "1 year return"}
MentionsReturn(key) == key = "1 year return"

\* the field a row is taken for: 'minimum' and 'investment' without 'sip' in
\* the key, else 'sip' and 'minimum'; 'aum'; a match of 1\s*(?:year|y)
RowField(key) ==
    CASE key = "minimum investment"     -> "min_investment"
      [] key = "sip minimum investment" -> "sip_min_investment"
      [] key = "aum"                    -> "aum"
      [] key = "1 year return"          -> "1Y"
      [] OTHER                          -> "none"

\* the bound of the number of table rows of a page
MaxRows == 2

TableRows ==
    UNION {[1..n -> [key : RowKeys, value : {"Rs 1,000", "n/a"}]] :
              n \in 0..MaxRows}

\* what the first matching text pattern of a field captured, None for no match
TextMatches == {None, "5,000"}

\* the scan of the table rows from row k on that returns at the first
\* matching row
RECURSIVE ScanFirst(_, _, _)
ScanFirst(k, rows, field) ==
    IF k > Len(rows) THEN None
    ELSE IF RowField(rows[k].key) = field /\ CellNumber(rows[k].value) # None
    THEN Float(CellNumber(rows[k].value))
    ELSE ScanFirst(k + 1, rows, field)

\* a scan that assigns at every matching row: the last assignment stays
RECURSIVE ScanAssign(_, _, _, _)
ScanAssign(k, rows, field, found) ==
    IF k > Len(rows) THEN found
    ELSE ScanAssign(k + 1, rows, field,
                    IF RowField(rows[k].key) = field /\ CellNumber(rows[k].value) # None
                    THEN Float(CellNumber(rows[k].value))
                    ELSE found)

\* NipponScraper._extract_aum: the first pattern match is returned; the
\* table is scanned only without one and its first matching row is returned
_extract_aum(text_match, rows) ==
    IF text_match # None THEN Float(text_match)
    ELSE ScanFirst(1, rows, "aum")

\* NipponScraper._extract_sip_details: the pattern matches fill the dict,
\* then every matching table row assigns to it
_extract_sip_details(text_min, text_sip, rows) ==
    [min_investment |->
        ScanAssign(1, rows, "min_investment",
                   IF text_min # None THEN Float(text_min) ELSE None),
     sip_min_investment |->
        ScanAssign(1, rows, "sip_min_investment",
                   IF text_sip # None THEN Float(text_sip) ELSE None)]

\* NipponScraper._extract_performance for the 1Y period: the pattern match
\* fills the dict, then every matching row of a table that mentions return
\* or performance assigns to it
_extract_performance(text_1y, rows) ==
    LET matched == IF text_1y # None THEN Float(text_1y) ELSE None IN
    IF \E k \in 1..Len(rows) : MentionsReturn(rows[k].key)
    THEN ScanAssign(1, rows, "1Y", matched)
    ELSE matched

call_extract_aum ==
    /\ job = JobIdle
    /\ \E text_match \in TextMatches, rows \in TableRows :
         job' = [op |-> "_extract_aum", text |-> text_match, rows |-> rows,
                 result |-> _extract_aum(text_match, rows)]
    /\ UNCHANGED <<schemes, metadata, collection, qa, api, factsheets, chunks, json_dump,
                   _metadata, net, urlcall>>

call_extract_sip_details ==
    /\ job = JobIdle
    /\ \E text_min \in TextMatches, text_sip \in TextMatches, rows \in TableRows :
         job' = [op |-> "_extract_sip_details", text |-> text_min, text_sip |-> text_sip,
                 rows |-> rows,
                 result |-> _extract_sip_details(text_min, text_sip, rows)]
    /\ UNCHANGED <<schemes, metadata, collection, qa, api, factsheets, chunks, json_dump,
                   _metadata, net, urlcall>>

call_extract_performance ==
    /\ job = JobIdle
    /\ \E text_1y \in TextMatches, rows \in TableRows :
         job' = [op |-> "_extract_performance", text |-> text_1y, rows |-> rows,
                 result |-> _extract_performance(text_1y, rows)]
    /\ UNCHANGED <<schemes, metadata, collection, qa, api, factsheets, chunks, json_dump,
                   _metadata, net, urlcall>>

\* scrape_scheme_page has taken the value of the heuristic
extract_return ==
    /\ job.op \in {"_extract_aum", "_extract_sip_details", "_extract_performance"}
    /\ job' = JobIdle
    /\ UNCHANGED <<schemes, metadata, collection, qa, api, factsheets, chunks, json_dump,
                   _metadata, net, urlcall>>

NextExtract ==
    \/ call_extract_aum
    \/ call_extract_sip_details
    \/ call_extract_performance
    \/ extract_return

SpecExtract == Init /\ [][NextExtract]_vars

\* C25: for every extracted field the heuristics are tried in priority order
\* and the first successful one decides: when the text pattern yields a
\* value the table-row scan does not replace it, for aum as well as for
\* min_investment, sip_min_investment and the performance periods.
C25_FirstHeuristicDecides ==
    /\ (job.op \in {"_extract_aum", "_extract_performance"}
          /\ Float(job.text) # None) => job.result = Float(job.text)
    /\ (job.op = "_extract_sip_details" /\ Float(job.text) # None) =>
          job.result.min_investment = Float(job.text)
    /\ (job.op = "_extract_sip_details" /\ Float(job.text_sip) # None) =>
          job.result.sip_min_investment = Float(job.text_sip)

====
